---- MODULE Spec2Model ----
(***************************************************************************)
(* Variant composition engine of tailwindcss (src/util/pluginUtils.js and  *)
(* the variant plugins of the core plugin table).                          *)
(*                                                                         *)
(* Selector text is a sequence of one-character strings, so that the       *)
(* JavaScript string operations of the source (indexOf, slice, replace,    *)
(* split, trim, startsWith) are computed on offsets exactly as the code    *)
(* computes them.                                                          *)
(***************************************************************************)
EXTENDS Integers, Sequences, FiniteSets, TLC

(***************************************************************************)
(* Bounds of the model.                                                    *)
(***************************************************************************)
\* number of variants stacked on one container
MaxVariants == 2

(***************************************************************************)
(* JavaScript values that are not strings.                                 *)
(***************************************************************************)
\* the null a selector transform returns to suppress a variant
NULL == <<"null">>
\* an exception thrown by the selector parser
THROW == <<"throw">>

(***************************************************************************)
(* JavaScript string primitives, 0-based as in the source.                 *)
(***************************************************************************)
Min(S) == CHOOSE x \in S : \A y \in S : x <= y
Max(S) == CHOOSE x \in S : \A y \in S : x >= y

\* a loop over a string: the body Step run n times on the loop state st; a
\* body that leaves the state as it is has ended the loop
RECURSIVE Iterate(_, _, _, _)
Iterate(Step(_, _), str, st, n) ==
  IF n <= 0 THEN st
  ELSE IF n = 1 THEN Step(str, st)
  ELSE LET half == Iterate(Step, str, st, n \div 2)
       IN IF half = st THEN st ELSE Iterate(Step, str, half, n - (n \div 2))

\* str.indexOf(pat, from)
IndexOfFrom(str, pat, from) ==
  LET cands == {i \in from..(Len(str) - Len(pat)) :
                  SubSeq(str, i + 1, i + Len(pat)) = pat}
  IN IF cands = {} THEN -1 ELSE Min(cands)

\* str.indexOf(pat)
IndexOf(str, pat) == IndexOfFrom(str, pat, 0)

\* str.slice(begin, end): a negative index counts from the end
Slice(str, begin, end) ==
  LET n == Len(str)
      b == IF begin < 0 THEN Max({n + begin, 0}) ELSE Min({begin, n})
      e == IF end < 0 THEN Max({n + end, 0}) ELSE Min({end, n})
  IN IF b >= e THEN <<>> ELSE SubSeq(str, b + 1, e)

\* str.replace(pat, rep) with a string pattern: the first occurrence only
Replace(str, pat, rep) ==
  LET i == IndexOf(str, pat)
  IN IF i = -1 THEN str
     ELSE SubSeq(str, 1, i) \o rep \o SubSeq(str, i + Len(pat) + 1, Len(str))

\* str.split(sep) for a one-character separator: '' splits to ['']
RECURSIVE SplitAcc(_, _, _, _)
SplitAcc(str, sep, cur, acc) ==
  IF str = <<>> THEN Append(acc, cur)
  ELSE IF Head(str) = sep THEN SplitAcc(Tail(str), sep, <<>>, Append(acc, cur))
  ELSE SplitAcc(Tail(str), sep, Append(cur, Head(str)), acc)

Split(str, sep) == SplitAcc(str, sep, <<>>, <<>>)

\* parts.join(sep): null and undefined entries are joined as the empty string
RECURSIVE JoinWith(_, _)
JoinWith(parts, sep) ==
  IF parts = <<>> THEN <<>>
  ELSE LET h == IF Head(parts) = NULL THEN <<>> ELSE Head(parts)
       IN IF Len(parts) = 1 THEN h ELSE h \o sep \o JoinWith(Tail(parts), sep)

\* str.trim()
RECURSIVE TrimStart(_)
TrimStart(str) ==
  IF str # <<>> /\ Head(str) = " " THEN TrimStart(Tail(str)) ELSE str

RECURSIVE TrimEnd(_)
TrimEnd(str) ==
  IF str # <<>> /\ str[Len(str)] = " " THEN TrimEnd(SubSeq(str, 1, Len(str) - 1))
  ELSE str

Trim(str) == TrimEnd(TrimStart(str))

\* str.startsWith(pat)
StartsWith(str, pat) ==
  Len(str) >= Len(pat) /\ SubSeq(str, 1, Len(pat)) = pat

(***************************************************************************)
(* Configuration: config('separator') and config('prefix') at their        *)
(* defaults, and the names the variant plugins build selectors from.       *)
(***************************************************************************)
separator == <<":">>

S_hover == <<"h", "o", "v", "e", "r">>
S_focus == <<"f", "o", "c", "u", "s">>
S_group == <<"g", "r", "o", "u", "p">>
S_peer == <<"p", "e", "e", "r">>
S_dark == <<"d", "a", "r", "k">>
S_before == <<"b", "e", "f", "o", "r", "e">>
S_after == <<"a", "f", "t", "e", "r">>
S_ltr == <<"l", "t", "r">>
S_motion == <<"m", "o", "t", "i", "o", "n", "-", "s", "a", "f", "e">>

\* the [variantName, state] pairs of pseudoVariants used by the model
pseudoVariants == {"hover", "focus"}

VariantChars(v) == IF v = "hover" THEN S_hover ELSE S_focus

\* prefixSelector(config('prefix'), '.group') with the default empty prefix
groupMarker == <<".">> \o S_group
peerMarker == <<".">> \o S_peer
darkSelector == <<".">> \o S_dark

(***************************************************************************)
(* The selector parser (postcss-selector-parser), as far as the rewriting  *)
(* primitives use it: a selector is read into class nodes and other nodes, *)
(* each with the nesting depth of the parentheses around it and the index  *)
(* of the top-level comma-separated selector it belongs to; serializing    *)
(* the untouched nodes reproduces the text.                                *)
(***************************************************************************)
Letters == {"a", "b", "c", "d", "e", "f", "g", "h", "i", "j", "k", "l", "m",
            "n", "o", "p", "q", "r", "s", "t", "u", "v", "w", "x", "y", "z"}
Digits == {"0", "1", "2", "3", "4", "5", "6", "7", "8", "9"}
IdentChars == Letters \cup Digits \cup {"-", "_"}

\* the hexadecimal escape of a comma followed by its terminating space
HexComma == <<"\\", "2", "c", " ">>

\* one character, or one escape, of a class name read at index j (1-based):
\* the index after it, or j where the name ends
ClassNext(str, j) ==
  IF j > Len(str) THEN j
  ELSE IF str[j] = "\\"
       THEN IF SubSeq(str, j, Min({j + 3, Len(str)})) = HexComma
            THEN j + 4
            ELSE Min({j + 2, Len(str) + 1})
  ELSE IF str[j] \in IdentChars THEN j + 1
  ELSE j

\* index just after the class name that starts at index j (1-based)
ClassEnd(str, j) == Iterate(ClassNext, str, j, Len(str) + 1 - j)

ClassNode(raw, depth, seg) ==
  [type |-> "class", raw |-> raw, depth |-> depth, seg |-> seg]
OtherNode(raw, depth, seg) ==
  [type |-> "other", raw |-> raw, depth |-> depth, seg |-> seg]

\* the comma between two selectors of a selector list
CommaNode(seg) ==
  [type |-> "comma", raw |-> <<",">>, depth |-> 0, seg |-> seg]

\* the parser reads the node at index st.i and moves on; it stops at the end
\* of the text or at a parenthesis closed without being opened
TokenStep(str, st) ==
  IF st.done THEN st
  ELSE IF st.i > Len(str)
  THEN [st EXCEPT !.done = TRUE, !.ok = st.depth = 0 /\ ~st.inAttr]
  ELSE LET c == str[st.i] IN
    IF st.inAttr
    THEN [st EXCEPT !.i = @ + 1, !.inAttr = c # "]",
                    !.acc = Append(@, OtherNode(<<c>>, st.depth, st.seg))]
    ELSE IF c = "\\"
    THEN [st EXCEPT !.i = Min({@ + 2, Len(str) + 1}),
                    !.acc = Append(@, OtherNode(SubSeq(str, st.i, Min({st.i + 1, Len(str)})),
                                                st.depth, st.seg))]
    ELSE IF c = "." /\ ClassEnd(str, st.i + 1) > st.i + 1
    THEN [st EXCEPT !.i = ClassEnd(str, st.i + 1),
                    !.acc = Append(@, ClassNode(SubSeq(str, st.i + 1, ClassEnd(str, st.i + 1) - 1),
                                                st.depth, st.seg))]
    ELSE IF c = "["
    THEN [st EXCEPT !.i = @ + 1, !.inAttr = TRUE,
                    !.acc = Append(@, OtherNode(<<c>>, st.depth, st.seg))]
    ELSE IF c = "("
    THEN [st EXCEPT !.i = @ + 1, !.depth = @ + 1,
                    !.acc = Append(@, OtherNode(<<c>>, st.depth, st.seg))]
    ELSE IF c = ")"
    THEN IF st.depth = 0 THEN [st EXCEPT !.done = TRUE, !.ok = FALSE]
         ELSE [st EXCEPT !.i = @ + 1, !.depth = @ - 1,
                         !.acc = Append(@, OtherNode(<<c>>, st.depth - 1, st.seg))]
    ELSE IF c = "," /\ st.depth = 0
    THEN [st EXCEPT !.i = @ + 1, !.seg = @ + 1, !.acc = Append(@, CommaNode(st.seg))]
    ELSE [st EXCEPT !.i = @ + 1, !.acc = Append(@, OtherNode(<<c>>, st.depth, st.seg))]

\* the nodes read from index i on, after the nodes acc
Tokenize(str, i, depth, inAttr, seg, acc) ==
  LET st == Iterate(TokenStep, str,
                    [i |-> i, depth |-> depth, inAttr |-> inAttr, seg |-> seg,
                     acc |-> acc, done |-> FALSE, ok |-> FALSE],
                    Len(str) + 2 - i)
  IN [ok |-> st.ok, nodes |-> st.acc]

\* selectorParser(...): ok is FALSE when the parser throws (a parenthesis or
\* a square bracket that is not closed, or closed without being opened)
Parse(str) == Tokenize(str, 1, 0, FALSE, 0, <<>>)

\* one character, or one escape, of the raw text of a class node read at
\* index st.i: what it stands for is added to the value
UnescapeNext(raw, st) ==
  IF st.i > Len(raw) THEN st
  ELSE IF raw[st.i] = "\\"
       THEN IF SubSeq(raw, st.i, Min({st.i + 3, Len(raw)})) = HexComma
            THEN [i |-> st.i + 4, out |-> Append(st.out, ",")]
            ELSE IF st.i = Len(raw) THEN [st EXCEPT !.i = @ + 1]
            ELSE [i |-> st.i + 2, out |-> Append(st.out, raw[st.i + 1])]
  ELSE [i |-> st.i + 1, out |-> Append(st.out, raw[st.i])]

Scanned(st) == st.out

\* the value of a class node: its raw text with the escapes removed
Unescape(raw) == Scanned(Iterate(UnescapeNext, raw, [i |-> 1, out |-> <<>>], Len(raw)))

RECURSIVE Concat(_)
Concat(parts) ==
  IF parts = <<>> THEN <<>>
  ELSE IF Len(parts) = 1 THEN parts[1]
  ELSE Concat(SubSeq(parts, 1, Len(parts) \div 2))
         \o Concat(SubSeq(parts, Len(parts) \div 2 + 1, Len(parts)))

\* the raw text the parser stores when a class node's value is assigned
\* (cssesc with isIdentifier): every character that is not an identifier
\* character is escaped with a backslash
cssesc(value) ==
  Concat([k \in DOMAIN value |->
            IF value[k] \in IdentChars THEN <<value[k]>> ELSE <<"\\", value[k]>>])

\* one character, or one escape, of a raw class name read at index st.i
EscapeNext(raw, st) ==
  IF st.i > Len(raw) THEN st
  ELSE IF SubSeq(raw, st.i, Min({st.i + 1, Len(raw)})) = <<"\\", ",">>
       THEN [i |-> st.i + 2, out |-> st.out \o HexComma]
  ELSE IF raw[st.i] = "\\" /\ st.i < Len(raw)
       THEN [i |-> st.i + 2, out |-> st.out \o <<raw[st.i], raw[st.i + 1]>>]
  ELSE [i |-> st.i + 1, out |-> Append(st.out, raw[st.i])]

\* escapeCommas(className): every escaped comma becomes its hexadecimal escape
escapeCommas(raw) == Scanned(Iterate(EscapeNext, raw, [i |-> 1, out |-> <<>>], Len(raw)))

NodeText(node) ==
  IF node.type = "class" THEN <<".">> \o node.raw ELSE node.raw

\* parser.processSync: the text of the nodes in order
Serialize(nodes) == Concat([k \in DOMAIN nodes |-> NodeText(nodes[k])])

ClassIndexes(nodes) == {k \in DOMAIN nodes : nodes[k].type = "class"}

\* the class values of a selector, in order of occurrence
IsClassNode(node) == node.type = "class"

ValuesOf(classNodes) == [k \in DOMAIN classNodes |-> Unescape(classNodes[k].raw)]

ClassValues(str) == ValuesOf(SelectSeq(Parse(str).nodes, IsClassNode))

(***************************************************************************)
(* The class rewriting callbacks of the variant plugins.  A callback is a  *)
(* record: the variant name it prefixes to the class, the pseudo it asks   *)
(* withPseudo to insert (empty: withPseudo is not called) and the marker   *)
(* class it returns unchanged (empty: none).                               *)
(***************************************************************************)
Callback(prefix, pseudo, keep) ==
  [prefix |-> prefix, pseudo |-> pseudo, keep |-> keep]

\* updateClass(sel.value, { withPseudo })
updateClass(cb, className) ==
  IF cb.keep # <<>> /\ <<".">> \o className = cb.keep THEN className
  ELSE cb.prefix \o separator \o className

\* the text of a class node after the callback ran on it: the node with its
\* value assigned and its raw value passed through escapeCommas, followed by
\* the pseudo node inserted after it
RewriteClass(node, cb) ==
  <<".">> \o escapeCommas(cssesc(updateClass(cb, Unescape(node.raw)))) \o cb.pseudo

\* the parser callback run on a parsed selector and the text of the result:
\* the class nodes at the chosen indexes are rewritten, the parser's exception
\* is passed on
ProcessSync(ast, chosen, cb) ==
  IF ~ast.ok THEN THROW
  ELSE Concat([k \in DOMAIN ast.nodes |->
                 IF k \in chosen THEN RewriteClass(ast.nodes[k], cb)
                 ELSE NodeText(ast.nodes[k])])

WalkClasses(ast, cb) == ProcessSync(ast, ClassIndexes(ast.nodes), cb)

\* the renamed class is inserted after the class instead of replacing it
KeepsOriginal(ast, cb) ==
  IF ~ast.ok THEN THROW
  ELSE Concat([k \in DOMAIN ast.nodes |->
                 IF ast.nodes[k].type = "class"
                 THEN NodeText(ast.nodes[k]) \o RewriteClass(ast.nodes[k], cb)
                 ELSE NodeText(ast.nodes[k])])

updateAllClasses_keepsOriginal(selectors, cb) == KeepsOriginal(Parse(selectors), cb)

updateAllClasses(selectors, cb) == WalkClasses(Parse(selectors), cb)

\* the last class-type node among the direct children of each selector
LastClasses(nodes) ==
  {k \in ClassIndexes(nodes) :
     /\ nodes[k].depth = 0
     /\ \A j \in ClassIndexes(nodes) :
          (nodes[j].depth = 0 /\ nodes[j].seg = nodes[k].seg) => j <= k}

EachLastClass(ast, cb) == ProcessSync(ast, LastClasses(ast.nodes), cb)

\* every class of the selector is passed to the callback
updateLastClasses_everyClass(selectors, cb) == WalkClasses(Parse(selectors), cb)

updateLastClasses(selectors, cb) == EachLastClass(Parse(selectors), cb)

(***************************************************************************)
(* Marker-state merging.                                                   *)
(***************************************************************************)
\* (marker, selector) => `${marker} ${selector}`
groupJoin(marker, selector) == marker \o <<" ">> \o selector

\* (marker, selector) =>
\*   selector.trim().startsWith('~') ? `${marker}${selector}` : `${marker} ~ ${selector}`
\* the peer join adding the combinator whatever the selector starts with
peerJoin_alwaysCombines(marker, selector) ==
  marker \o <<" ", "~", " ">> \o selector

peerJoin(marker, selector) ==
  IF StartsWith(Trim(selector), <<"~">>) THEN marker \o selector
  ELSE marker \o <<" ", "~", " ">> \o selector

CallJoin(join, marker, selector) ==
  IF join = "group" THEN groupJoin(marker, selector) ELSE peerJoin(marker, selector)

\* the states list and the selector handed to join
MarkerMerge(selector, marker, state) ==
  LET markerIdx == IndexOf(selector, marker \o <<":">>)
  IN IF markerIdx # -1
     THEN LET existingMarker ==
                Slice(selector, markerIdx, IndexOfFrom(selector, <<" ">>, markerIdx))
          IN [states |-> <<state>> \o
                Split(Slice(selector, markerIdx + Len(marker) + 1, Len(existingMarker)), ":"),
              selector |-> Replace(selector, existingMarker, <<>>)]
     ELSE [states |-> <<state>>, selector |-> selector]

\* applyPseudoToMarker losing the states the marker already carries
applyPseudoToMarker_dropsExisting(selector, marker, state, join) ==
  LET m == MarkerMerge(selector, marker, state)
  IN CallJoin(join, JoinWith(<<marker, state>>, <<":">>), m.selector)

\* applyPseudoToMarker leaving the old marker token in the selector
applyPseudoToMarker_keepsOld(selector, marker, state, join) ==
  LET m == MarkerMerge(selector, marker, state)
  IN CallJoin(join, JoinWith(<<marker>> \o m.states, <<":">>), selector)

\* applyPseudoToMarker putting the new state after the existing ones
applyPseudoToMarker_appends(selector, marker, state, join) ==
  LET m == MarkerMerge(selector, marker, state)
  IN CallJoin(join, JoinWith(<<marker>> \o Tail(m.states) \o <<state>>, <<":">>), m.selector)

\* applyPseudoToMarker returning the selector as it is when no marker carries states
applyPseudoToMarker_noPrepend(selector, marker, state, join) ==
  LET m == MarkerMerge(selector, marker, state)
  IN IF IndexOf(selector, marker \o <<":">>) = -1 THEN selector
     ELSE CallJoin(join, JoinWith(<<marker>> \o m.states, <<":">>), m.selector)

applyPseudoToMarker(selector, marker, state, join) ==
  LET m == MarkerMerge(selector, marker, state)
  IN CallJoin(join, JoinWith(<<marker>> \o m.states, <<":">>), m.selector)

(***************************************************************************)
(* The selector transforms of the variant plugins.  Each returns a         *)
(* selector, NULL, or THROW when the parser threw.                         *)
(***************************************************************************)
\* pseudoElementVariants: 'before' and 'after'
pseudoElementSelector(name, selector) ==
  updateAllClasses(selector, Callback(name, <<":", ":">> \o name, <<>>))

\* pseudoClassVariants: the class callback of a plain pseudo-class variant
pseudoClassCallback(variant) ==
  Callback(VariantChars(variant), <<":">> \o VariantChars(variant), <<>>)

\* what a relational variant returns once updateAllClasses has renamed the
\* classes of the selector: null when nothing was renamed
\* a relational variant that never suppresses a piece
relationalResult_neverNull(selector, variantSelector, marker, state, join) ==
  IF variantSelector = THROW THEN THROW
  ELSE applyPseudoToMarker(variantSelector, marker, state, join)

relationalResult(selector, variantSelector, marker, state, join) ==
  IF variantSelector = THROW THEN THROW
  ELSE IF variantSelector = selector THEN NULL
  ELSE applyPseudoToMarker(variantSelector, marker, state, join)

\* the class callback of group-<variantName>
groupCallback(variant) ==
  Callback(S_group \o <<"-">> \o VariantChars(variant), <<>>, groupMarker)

\* pseudoClassVariants: group-<variantName>
groupSelector(variant, selector) ==
  relationalResult(selector, updateAllClasses(selector, groupCallback(variant)),
                   groupMarker, VariantChars(variant), "group")

\* the class callback of peer-<variantName>
peerCallback(variant) ==
  Callback(S_peer \o <<"-">> \o VariantChars(variant), <<>>, peerMarker)

\* pseudoClassVariants: peer-<variantName>
peerSelector(variant, selector) ==
  relationalResult(selector, updateAllClasses(selector, peerCallback(variant)),
                   peerMarker, VariantChars(variant), "peer")

\* `[dir="ltr"] ${...}`
ltrResult(updated) ==
  IF updated = THROW THEN THROW
  ELSE <<"[", "d", "i", "r", "=", "\"", "l", "t", "r", "\"", "]", " ">> \o updated

\* directionVariants: 'ltr'
ltrSelector(selector) ==
  ltrResult(updateAllClasses(selector, Callback(S_ltr, <<>>, <<>>)))

\* what the class-mode dark variant returns once updateLastClasses has run
darkResult(selector, variantSelector) ==
  IF variantSelector = THROW THEN THROW
  ELSE IF variantSelector = selector THEN NULL
  ELSE darkSelector \o <<" ">> \o variantSelector

\* darkVariants with darkMode 'class'
darkClassSelector(selector) ==
  darkResult(selector, updateLastClasses(selector, Callback(S_dark, <<>>, <<>>)))

GroupVariantOf(v) == "group-" \o v
PeerVariantOf(v) == "peer-" \o v

\* transformSelector as passed to transformAllSelectors by variant t
IsGroupVariant(t) == \E v \in pseudoVariants : t = GroupVariantOf(v)
IsPeerVariant(t) == \E v \in pseudoVariants : t = PeerVariantOf(v)
StateOfVariant(t) ==
  CHOOSE v \in pseudoVariants : t \in {GroupVariantOf(v), PeerVariantOf(v)}

transformSelector(t, selector) ==
  IF t = "before" THEN pseudoElementSelector(S_before, selector)
  ELSE IF t = "after" THEN pseudoElementSelector(S_after, selector)
  ELSE IF t = "ltr" THEN ltrSelector(selector)
  ELSE IF t = "dark" THEN darkClassSelector(selector)
  ELSE IF IsGroupVariant(t) THEN groupSelector(StateOfVariant(t), selector)
  ELSE peerSelector(StateOfVariant(t), selector)

(***************************************************************************)
(* The rule transform pipelines.                                           *)
(***************************************************************************)
\* the body of the loop over the characters of the selector
SplitCommas(str, st) ==
  IF str[st.i] = "," /\ (st.i = 1 \/ str[st.i - 1] # "\\")
  THEN [i |-> st.i + 1, currentChunk |-> <<>>,
        chunks |-> Append(st.chunks, st.currentChunk)]
  ELSE [st EXCEPT !.i = @ + 1, !.currentChunk = Append(@, str[st.i])]

\* the chunks, with the last one pushed after the loop
LastChunk(st) == Append(st.chunks, st.currentChunk)

splitByNotEscapedCommas(str) ==
  LastChunk(Iterate(SplitCommas, str,
                    [i |-> 1, currentChunk |-> <<>>, chunks |-> <<>>], Len(str)))

\* isKeyframeRule(rule): the rule is a step of an @keyframes at-rule
isKeyframeRule(rule) == rule.keyframe

\* the withRule hook of 'before' and 'after': a content declaration is
\* prepended unless walkDecls finds one
\* a hook that prepends a content declaration whatever the rule has
contentHook_alwaysPrepends(rule) == [rule EXCEPT !.content = @ + 1]

contentHook(rule) ==
  IF rule.content = 0 THEN [rule EXCEPT !.content = 1] ELSE rule

\* splitByNotEscapedCommas(rule.selector).map(transformSelector)
MapTransform(t, selector) ==
  LET pieces == splitByNotEscapedCommas(selector)
  IN [k \in DOMAIN pieces |-> transformSelector(t, pieces[k])]

Throws(results) == \E k \in DOMAIN results : results[k] = THROW

\* the results the map produced before the callback threw, and the THROW
UpToThrow(results) ==
  IF ~Throws(results) THEN results
  ELSE SubSeq(results, 1, Min({k \in DOMAIN results : results[k] = THROW}))

\* results.join(','), unless the map threw
JoinResults(results) ==
  IF Throws(results) THEN THROW ELSE JoinWith(results, <<",">>)

\* the selector transformAllSelectors assigns to a rule, or THROW
transformedSelector(t, selector) == JoinResults(MapTransform(t, selector))

\* transformAllClasses and transformLastClasses: the selector assigned
classesSelector(api, cb, selector) ==
  IF api = "transformAllClasses" THEN updateAllClasses(selector, cb)
  ELSE updateLastClasses(selector, cb)

(***************************************************************************)
(* Value resolution: asValue, asColor and coerceValue on a modifier, the   *)
(* theme table of the utility, the kinds the utility accepts and the       *)
(* configuration.  undefined is a value of its own; [] is the empty tuple. *)
(***************************************************************************)
UNDEFINED == <<"undefined">>

\* the kind names: the keys of typeMap
K_any == <<"a", "n", "y">>
K_color == <<"c", "o", "l", "o", "r">>
K_url == <<"u", "r", "l">>
K_image == <<"i", "m", "a", "g", "e">>
K_length == <<"l", "e", "n", "g", "t", "h">>
K_percentage == <<"p", "e", "r", "c", "e", "n", "t", "a", "g", "e">>
K_position == <<"p", "o", "s", "i", "t", "i", "o", "n">>
K_lookup == <<"l", "o", "o", "k", "u", "p">>
K_generic_name == <<"g", "e", "n", "e", "r", "i", "c", "-", "n", "a", "m", "e">>
K_family_name == <<"f", "a", "m", "i", "l", "y", "-", "n", "a", "m", "e">>
K_number == <<"n", "u", "m", "b", "e", "r">>
K_line_width == <<"l", "i", "n", "e", "-", "w", "i", "d", "t", "h">>
K_absolute_size == <<"a", "b", "s", "o", "l", "u", "t", "e", "-", "s", "i", "z", "e">>
K_relative_size == <<"r", "e", "l", "a", "t", "i", "v", "e", "-", "s", "i", "z", "e">>

\* Object.keys(typeMap), in order
supportedTypes ==
  <<K_any, K_color, K_url, K_image, K_length, K_percentage, K_position,
    K_lookup, K_generic_name, K_family_name, K_number, K_line_width, K_absolute_size, K_relative_size>>

\* supportedTypes.includes(type)
IsSupported(type) == \E k \in DOMAIN supportedTypes : supportedTypes[k] = type

\* lookup[modifier]
Lookup(lookup, modifier) ==
  IF modifier \in DOMAIN lookup THEN lookup[modifier] ELSE UNDEFINED

\* the truthiness of a string or undefined
Truthy(value) == value # UNDEFINED /\ value # <<>>

\* the literals the model resolves
V_hex == <<"#", "1", "d", "a", "1", "f", "2">>  \* #1da1f2
V_red == <<"r", "e", "d">>  \* red
V_3px == <<"3", "p", "x">>  \* 3px
V_lengths == <<"1", "p", "x", "_", "2", "p", "x">>  \* 1px_2px
V_half == <<"0", ".", "5">>  \* 0.5
V_percent == <<"5", "0", "%">>  \* 50%
V_url == <<"u", "r", "l", "(", "x", ")">>  \* url(x)
V_abc == <<"a", "b", "c">>  \* abc
V_bar == <<"b", "a", "r">>  \* bar
V_ef4444 == <<"#", "e", "f", "4", "4", "4", "4">>  \* #ef4444
V_fff == <<"#", "f", "f", "f">>  \* #fff
V_current == <<"c", "u", "r", "r", "e", "n", "t", "C", "o", "l", "o", "r">>  \* currentColor

\* the data type validators (dataTypes.js): the literals each kind accepts
ValidLiterals(kind) ==
  IF kind = K_color THEN {V_hex, V_red, V_ef4444, V_fff}
  ELSE IF kind = K_length THEN {V_3px, V_lengths}
  ELSE IF kind = K_percentage THEN {V_percent}
  ELSE IF kind = K_number THEN {V_half}
  ELSE IF kind \in {K_url, K_image} THEN {V_url}
  ELSE {}

\* validate(value): "none" is the default validate of asValue, () => true
Validates(validate, value) == validate = "none" \/ value \in ValidLiterals(validate)

\* normalize(value): an underscore stands for a space, the ends are trimmed
normalize(value) ==
  Trim([k \in DOMAIN value |-> IF value[k] = "_" THEN " " ELSE value[k]])

\* what stands for an alpha channel: a number or a percentage
IsAlpha(alpha) == alpha \in ValidLiterals(K_number) \cup ValidLiterals(K_percentage)

\* the literal color with its alpha channel substituted
Composed(color, alpha) == color \o <<" ", "/", " ">> \o alpha

\* withAlphaValue(color, alphaValue, defaultValue): an alpha that is not a
\* number or a percentage yields the default
withAlphaValue(color, alphaValue, defaultValue) ==
  IF IsAlpha(alphaValue) THEN Composed(color, alphaValue) ELSE defaultValue

\* input.startsWith('[') && input.endsWith(']')
isArbitraryValue(input) ==
  /\ StartsWith(input, <<"[">>)
  /\ input # <<>> /\ input[Len(input)] = "]"

\* an arbitrary value is returned without being validated
asValue_noValidate(modifier, lookup, validate) ==
  IF Lookup(lookup, modifier) # UNDEFINED THEN Lookup(lookup, modifier)
  ELSE IF ~isArbitraryValue(modifier) THEN UNDEFINED
  ELSE normalize(Slice(modifier, 1, -1))

\* a modifier without brackets is validated like the text of an arbitrary one
asValue_acceptsPlain(modifier, lookup, validate) ==
  IF Lookup(lookup, modifier) # UNDEFINED THEN Lookup(lookup, modifier)
  ELSE IF ~isArbitraryValue(modifier)
  THEN IF Validates(validate, modifier) THEN normalize(modifier) ELSE UNDEFINED
  ELSE IF ~Validates(validate, Slice(modifier, 1, -1)) THEN UNDEFINED
  ELSE normalize(Slice(modifier, 1, -1))

asValue(modifier, lookup, validate) ==
  IF Lookup(lookup, modifier) # UNDEFINED THEN Lookup(lookup, modifier)
  ELSE IF ~isArbitraryValue(modifier) THEN UNDEFINED
  ELSE IF ~Validates(validate, Slice(modifier, 1, -1)) THEN UNDEFINED
  ELSE normalize(Slice(modifier, 1, -1))

\* str.lastIndexOf(pat)
LastIndexOf(str, pat) ==
  LET cands == {i \in 0..(Len(str) - Len(pat)) : SubSeq(str, i + 1, i + Len(pat)) = pat}
  IN IF cands = {} THEN -1 ELSE Max(cands)

\* a slash at the end is dropped and the rest is taken as the color
splitAlpha_dropsTrailingSlash(modifier) ==
  LET slashIdx == LastIndexOf(modifier, <<"/">>)
  IN IF slashIdx = -1 THEN <<modifier>>
     ELSE IF slashIdx = Len(modifier) - 1 THEN <<Slice(modifier, 0, slashIdx)>>
     ELSE <<Slice(modifier, 0, slashIdx), Slice(modifier, slashIdx + 1, Len(modifier))>>

splitAlpha(modifier) ==
  LET slashIdx == LastIndexOf(modifier, <<"/">>)
  IN IF slashIdx = -1 \/ slashIdx = Len(modifier) - 1 THEN <<modifier>>
     ELSE <<Slice(modifier, 0, slashIdx), Slice(modifier, slashIdx + 1, Len(modifier))>>

\* tailwindConfig.theme?.opacity?.[alpha]
OpacityOf(tailwindConfig, alpha) ==
  IF tailwindConfig.hasOpacity THEN Lookup(tailwindConfig.opacity, alpha) ELSE UNDEFINED

\* an alpha of the opacity scale is ignored and the color is left opaque
AlphaColor_opaqueScale(modifier, lookup, tailwindConfig, color, alpha) ==
  IF Lookup(lookup, color) # UNDEFINED
  THEN IF alpha = UNDEFINED THEN THROW
       ELSE IF isArbitraryValue(alpha)
       THEN withAlphaValue(Lookup(lookup, color), Slice(alpha, 1, -1), UNDEFINED)
       ELSE IF OpacityOf(tailwindConfig, alpha) = UNDEFINED THEN UNDEFINED
       ELSE Lookup(lookup, color)
  ELSE asValue(modifier, lookup, K_color)

\* asColor once the modifier is split: alpha is undefined when it was not
AlphaColor(modifier, lookup, tailwindConfig, color, alpha) ==
  IF Lookup(lookup, color) # UNDEFINED
  THEN IF alpha = UNDEFINED THEN THROW
       ELSE IF isArbitraryValue(alpha)
       THEN withAlphaValue(Lookup(lookup, color), Slice(alpha, 1, -1), UNDEFINED)
       ELSE IF OpacityOf(tailwindConfig, alpha) = UNDEFINED THEN UNDEFINED
       ELSE withAlphaValue(Lookup(lookup, color), OpacityOf(tailwindConfig, alpha), UNDEFINED)
  ELSE asValue(modifier, lookup, K_color)

SecondOf(parts) == IF Len(parts) >= 2 THEN parts[2] ELSE UNDEFINED

\* an alpha that the opacity scale does not have leaves the color opaque
asColor_defaultsOpaque(modifier, lookup, tailwindConfig) ==
  IF Lookup(lookup, modifier) # UNDEFINED THEN Lookup(lookup, modifier)
  ELSE IF Lookup(lookup, splitAlpha(modifier)[1]) # UNDEFINED
  THEN Lookup(lookup, splitAlpha(modifier)[1])
  ELSE asValue(modifier, lookup, K_color)

\* the modifier is split before it is looked up as a whole
asColor_splitsFirst(modifier, lookup, tailwindConfig) ==
  IF Len(splitAlpha(modifier)) = 2 /\ Lookup(lookup, splitAlpha(modifier)[1]) # UNDEFINED
  THEN AlphaColor(modifier, lookup, tailwindConfig,
                  splitAlpha(modifier)[1], SecondOf(splitAlpha(modifier)))
  ELSE IF Lookup(lookup, modifier) # UNDEFINED THEN Lookup(lookup, modifier)
  ELSE asValue(modifier, lookup, K_color)

asColor(modifier, lookup, tailwindConfig) ==
  IF Lookup(lookup, modifier) # UNDEFINED THEN Lookup(lookup, modifier)
  ELSE AlphaColor(modifier, lookup, tailwindConfig,
                  splitAlpha(modifier)[1], SecondOf(splitAlpha(modifier)))

asLookupValue(modifier, lookup) == Lookup(lookup, modifier)

\* typeMap[type](modifier, values, tailwindConfig): the configuration has
\* no validate of its own, so 'any' validates nothing
typeMap(type, modifier, lookup, tailwindConfig) ==
  IF type = K_any THEN asValue(modifier, lookup, "none")
  ELSE IF type = K_color THEN asColor(modifier, lookup, tailwindConfig)
  ELSE IF type = K_lookup THEN asLookupValue(modifier, lookup)
  ELSE asValue(modifier, lookup, type)

\* splitAtFirst(input, delim)
splitAtFirst(input, delim) ==
  IF IndexOf(input, delim) = -1 THEN <<UNDEFINED, input>>
  ELSE <<Slice(input, 0, IndexOf(input, delim)),
         Slice(input, IndexOf(input, delim) + 1, Len(input))>>

\* the loop of coerceValue: the first type whose resolver returns a truthy
\* result
RECURSIVE FirstMatching(_, _, _, _)
FirstMatching(types, modifier, values, tailwindConfig) ==
  IF types = <<>> THEN <<>>
  ELSE IF typeMap(Head(types), modifier, values, tailwindConfig) = THROW THEN THROW
  ELSE IF Truthy(typeMap(Head(types), modifier, values, tailwindConfig))
  THEN <<typeMap(Head(types), modifier, values, tailwindConfig), Head(types)>>
  ELSE FirstMatching(Tail(types), modifier, values, tailwindConfig)

\* coerceValue on an arbitrary value, split at its first colon
Explicit(types, modifier, values, tailwindConfig, explicitType, value) ==
  IF explicitType # UNDEFINED /\ ~IsSupported(explicitType) THEN <<>>
  ELSE IF Len(value) > 0 /\ IsSupported(explicitType)
  THEN <<asValue(<<"[">> \o value \o <<"]">>, values, "none"), explicitType>>
  ELSE FirstMatching(types, modifier, values, tailwindConfig)

\* a kind prefix that is not supported is ignored and the kinds of the caller
\* are tried
coerceValue_fallsBack(types, modifier, values, tailwindConfig) ==
  FirstMatching(types, modifier, values, tailwindConfig)

\* a theme hit is reported as the kind 'lookup'
coerceValue_lookupKind(types, modifier, values, tailwindConfig) ==
  IF Lookup(values, modifier) # UNDEFINED THEN <<Lookup(values, modifier), K_lookup>>
  ELSE FirstMatching(types, modifier, values, tailwindConfig)

\* the kinds of the caller are tried from the last to the first
coerceValue_lastKindFirst(types, modifier, values, tailwindConfig) ==
  IF isArbitraryValue(modifier)
  THEN Explicit([k \in DOMAIN types |-> types[Len(types) + 1 - k]],
                modifier, values, tailwindConfig,
                splitAtFirst(Slice(modifier, 1, -1), <<":">>)[1],
                splitAtFirst(Slice(modifier, 1, -1), <<":">>)[2])
  ELSE FirstMatching(types, modifier, values, tailwindConfig)

coerceValue(types, modifier, values, tailwindConfig) ==
  IF isArbitraryValue(modifier)
  THEN Explicit(types, modifier, values, tailwindConfig,
                splitAtFirst(Slice(modifier, 1, -1), <<":">>)[1],
                splitAtFirst(Slice(modifier, 1, -1), <<":">>)[2])
  ELSE FirstMatching(types, modifier, values, tailwindConfig)

\* the modifiers the model resolves
M_red500 == <<"r", "e", "d", "-", "5", "0", "0">>  \* red-500
M_hex == <<"[", "#", "1", "d", "a", "1", "f", "2", "]">>  \* [#1da1f2]
M_length3px == <<"[", "l", "e", "n", "g", "t", "h", ":", "3", "p", "x", "]">>  \* [length:3px]
M_lengthAbc == <<"[", "l", "e", "n", "g", "t", "h", ":", "a", "b", "c", "]">>  \* [length:abc]
M_fooBar == <<"[", "f", "o", "o", ":", "b", "a", "r", "]">>  \* [foo:bar]
M_escaped == <<"[", "a", "\\", ":", "b", ":", "c", "]">>  \* [a\:b:c]
M_lengths == <<"[", "1", "p", "x", "_", "2", "p", "x", "]">>  \* [1px_2px]
M_url == <<"[", "u", "r", "l", "(", "x", ")", "]">>  \* [url(x)]
M_abc == <<"[", "a", "b", "c", "]">>  \* [abc]
M_alpha50 == <<"r", "e", "d", "-", "5", "0", "0", "/", "5", "0">>  \* red-500/50
M_alphaZzz == <<"r", "e", "d", "-", "5", "0", "0", "/", "z", "z", "z">>  \* red-500/zzz
M_alphaAbc == <<"r", "e", "d", "-", "5", "0", "0", "/", "[", "a", "b", "c", "]">>  \* red-500/[abc]
M_alphaHalf == <<"r", "e", "d", "-", "5", "0", "0", "/", "[", "0", ".", "5", "]">>  \* red-500/[0.5]
M_unknown == <<"n", "o", "t", "-", "a", "-", "r", "e", "a", "l", "-", "k", "e", "y">>  \* not-a-real-key
M_none == <<"n", "o", "n", "e">>  \* none
M_current == <<"c", "u", "r", "r", "e", "n", "t", "/", "5", "0">>  \* current/50
M_empty == <<"[", "]">>  \* []
M_trailing == <<"r", "e", "d", "-", "5", "0", "0", "/">>  \* red-500/

Modifiers ==
  {M_red500, M_hex, M_length3px, M_lengthAbc,
   M_fooBar, M_escaped, M_lengths, M_url,
   M_abc, M_alpha50, M_alphaZzz, M_alphaAbc,
   M_alphaHalf, M_unknown, M_none, M_current,
   M_empty, M_trailing}

M_50 == <<"5", "0">>
M_current0 == <<"c", "u", "r", "r", "e", "n", "t">>

\* the theme tables of a utility: none, one with a color, a color that
\* the color parser does not read, an empty value and keys in brackets, and
\* one with a color and a key that has a slash
Themes ==
  {<<>>,
   (M_red500 :> V_ef4444) @@ (M_current0 :> V_current) @@ (M_none :> <<>>)
     @@ (M_fooBar :> V_fff) @@ (M_abc :> V_bar),
   (M_red500 :> V_ef4444) @@ (M_alpha50 :> V_red)}

\* the configurations: without theme.opacity and with an opacity scale
Configs ==
  {[hasOpacity |-> FALSE, opacity |-> <<>>],
   [hasOpacity |-> TRUE, opacity |-> (M_50 :> V_half)]}

\* the kinds lists utilities pass
KindLists ==
  {<<K_color>>, <<K_color, K_length>>, <<K_length, K_color>>, <<K_any>>,
   <<K_lookup>>, <<K_color, K_any>>, <<K_image, K_url>>}

(***************************************************************************)
(* The color utilities with a companion opacity plugin.                    *)
(***************************************************************************)
ColorUtilities == {"bg", "text", "border", "divide", "placeholder", "ring"}

\* the property a color utility sets
PropertyOf(utility) ==
  IF utility = "bg" THEN "background-color"
  ELSE IF utility \in {"text", "placeholder"} THEN "color"
  ELSE IF utility = "ring" THEN "--tw-ring-color"
  ELSE "border-color"

\* the custom property of the companion opacity plugin
VariableOf(utility) == "--tw-" \o utility \o "-opacity"

\* the type option of the utility
TypesOf(utility) ==
  IF utility = "placeholder" THEN <<K_color, K_any>> ELSE <<K_color>>

Declaration(prop, color, alpha) == [prop |-> prop, color |-> color, alpha |-> alpha]

\* toColorValue(value)
toColorValue(value) == value

\* the alpha channel of a literal color, undefined when it has none
AlphaOf(color) ==
  IF IndexOf(color, <<" ", "/", " ">>) = -1 THEN UNDEFINED
  ELSE Slice(color, IndexOf(color, <<" ", "/", " ">>) + 3, Len(color))

\* the literal color without its alpha channel
OpaqueOf(color) ==
  IF IndexOf(color, <<" ", "/", " ">>) = -1 THEN color
  ELSE Slice(color, 0, IndexOf(color, <<" ", "/", " ">>))

\* the alpha of a color that reads it from a custom property
Var(variable) == <<"var", variable>>

\* withAlphaVariable({ color, property, variable }): the custom property set
\* to the alpha of the color, or to 1, and the color reading its alpha from it
withAlphaVariable(color, property, variable) ==
  <<Declaration(variable, <<>>,
                IF AlphaOf(color) = UNDEFINED THEN <<"1">> ELSE AlphaOf(color)),
    Declaration(property, OpaqueOf(color), Var(variable))>>

\* the declarations of a color utility that asks corePlugins for its
\* companion opacity plugin
PlainOrVariable(utility, value, opacityPluginActive) ==
  IF ~opacityPluginActive
  THEN <<Declaration(PropertyOf(utility), toColorValue(value), <<>>)>>
  ELSE withAlphaVariable(value, PropertyOf(utility), VariableOf(utility))

\* the function a color utility passes to matchUtilities
colorUtility(utility, value, opacityPluginActive) ==
  IF utility = "ring"
  THEN withAlphaVariable(value, PropertyOf(utility), VariableOf(utility))
  ELSE PlainOrVariable(utility, value, opacityPluginActive)

(***************************************************************************)
(* State: the container a variant function receives, and what the last     *)
(* variant application did.                                                *)
(***************************************************************************)
VARIABLES
  container,    \* the rules walkRules visits, in order
  wrappers,     \* the at-rules wrap() created, innermost first
  threw,        \* the selector parser threw: generation of this container stopped
  base,         \* the container before any variant was applied
  applied,      \* the variants applied so far, in order of application
  splitLog,     \* per rule rewritten by the last transformAllSelectors call:
                \* its selector before, the pieces, and the results of the map
                \* up to the first piece the transform threw on
  markerCalls,  \* the applyPseudoToMarker calls of the last variant application
  hookLog,      \* the indexes of the rules the last application passed to withRule
  tree,         \* container.nodes: the direct children of the container, as a tree
  options,      \* the pipeline and the options of the last variant application
  trace,        \* what the last variant application did, in the order it did it
  phase,        \* of a utility resolving a modifier: called, resolved, emitted
  request,      \* the arguments of coerceValue: types, modifier, values, tailwindConfig
  resolved,     \* what coerceValue returned
  colored,      \* what asColor returned for the modifier
  emitted,      \* the color utility that was given the value, and whether its
                \* companion opacity plugin is enabled
  declarations  \* the declarations that utility returned

valueVars == <<phase, request, resolved, colored, emitted, declarations>>

vars == <<container, wrappers, threw, base, applied, splitLog, markerCalls, hookLog,
          tree, options, trace, valueVars>>

Rule(selector, keyframe, content) ==
  [selector |-> selector, keyframe |-> keyframe, content |-> content]

S_foo == <<".", "f", "o", "o">>
S_bar == <<".", "b", "a", "r">>

\* the containers of generated base rules the variants are applied to
Bases ==
  { \* .foo { ... }
    <<Rule(S_foo, FALSE, 0)>>,
    \* .group { ... }  a, .foo { ... }
    <<Rule(groupMarker, FALSE, 0), Rule(<<"a", ",">> \o S_foo, FALSE, 0)>>,
    \* @keyframes spin { to { ... } }  .foo { content: ...; ... }
    <<Rule(<<"t", "o">>, TRUE, 0), Rule(S_foo, FALSE, 1)>>,
    \* .foo:is(.a,.b) { ... }
    <<Rule(S_foo \o <<":", "i", "s", "(", ".", "a", ",", ".", "b", ")">>, FALSE, 0)>>,
    \* .a\,b, .bar { ... }
    <<Rule(<<".", "a", "\\", ",", "b", ",">> \o S_bar, FALSE, 0)>> }

\* a node of the tree: a rule, named by its place in the walk, or an at-rule
RuleNode(i) == [type |-> "rule", name |-> "", rule |-> i, nodes |-> <<>>]
AtRule(name) == [type |-> "atrule", name |-> name, rule |-> 0, nodes |-> <<>>]

\* no modifier is being resolved
NoRequest ==
  /\ phase = "idle"
  /\ request = [types |-> <<>>, modifier |-> <<>>, values |-> <<>>,
                tailwindConfig |-> [hasOpacity |-> FALSE, opacity |-> <<>>]]
  /\ resolved = <<>>
  /\ colored = UNDEFINED
  /\ emitted = [utility |-> "", opacityPluginActive |-> FALSE]
  /\ declarations = <<>>

\* the rules a utility generated, before any variant is applied to them
GeneratedRules(rules) ==
  /\ container = rules
  /\ base = container
  /\ wrappers = <<>>
  /\ threw = FALSE
  /\ applied = <<>>
  /\ splitLog = <<>>
  /\ markerCalls = {}
  /\ hookLog = <<>>
  /\ tree = [i \in DOMAIN rules |-> RuleNode(i)]
  /\ options = [api |-> "none", withRule |-> FALSE, wrap |-> "none"]
  /\ trace = <<>>

\* the state before any variant is applied to the container
Generated(rules) == GeneratedRules(rules) /\ NoRequest

Init == \E rules \in Bases : Generated(rules)

\* container.removeAll()
removeAll(children) == <<>>

\* parent.append(children)
append(parent, children) == [parent EXCEPT !.nodes = @ \o children]

\* the wrap step moves the former children into a wrapper it leaves in place
\* of them: removeAll is skipped
wrapNodes_keepsChildren(children, wrap) ==
  children \o <<append(AtRule(wrap), children)>>

\* the wrap step of a pipeline: the children of the container afterwards
wrapNodes(children, wrap) ==
  removeAll(children) \o <<append(AtRule(wrap), children)>>

Event(op, rule) == [op |-> op, rule |-> rule]

\* the callback of walkRules on one rule hooks the rule and then sets its
\* selector
ruleEvents_hooksFirst(i, withRule) ==
  (IF withRule THEN <<Event("withRule", i)>> ELSE <<>>) \o <<Event("selector", i)>>

\* the callback of walkRules on one rule it rewrites: rule.selector is set,
\* then withRule(rule) is called if supplied
ruleEvents(i, withRule) ==
  <<Event("selector", i)>> \o (IF withRule THEN <<Event("withRule", i)>> ELSE <<>>)

RECURSIVE walkEvents(_, _)
\* container.walkRules(...) over the rules it rewrites, in order
walkEvents(order, withRule) ==
  IF order = <<>> THEN <<>>
  ELSE ruleEvents(Head(order), withRule) \o walkEvents(Tail(order), withRule)

\* the wrapper is created and filled before the rules are walked
pipelineEvents_wrapsFirst(order, withRule, wrapped) ==
  (IF wrapped THEN <<Event("wrap", 0), Event("append", 0)>> ELSE <<>>)
    \o walkEvents(order, withRule)

\* a pipeline from start to end: the walk, then the wrap step if it is
\* supplied and reached
pipelineEvents(order, withRule, wrapped) ==
  walkEvents(order, withRule)
    \o (IF wrapped THEN <<Event("wrap", 0), Event("append", 0)>> ELSE <<>>)

\* the rule indexes walkRules reaches before the parser throws
Reached(results) ==
  {i \in DOMAIN container : \A j \in 1..i : results[j] # THROW}

\* the rules the callback of transformAllSelectors rewrites or throws on
Walked(walk, skipped) ==
  {i \in DOMAIN walk \ skipped :
     \A j \in (1..(i - 1)) \ skipped : ~Throws(walk[j].results)}

RECURSIVE Ascending(_)
Ascending(S) ==
  IF S = {} THEN <<>> ELSE <<Min(S)>> \o Ascending(S \ {Min(S)})

\* container.walkRules(...) followed by the wrap step, given the selector
\* computed for each rule (THROW: the callback throws there), the rules the
\* callback returns early on, and the options
Pipeline(results, skipped, withRule, wrap) ==
  LET done == Reached(results) \ skipped
      failed == \E i \in DOMAIN container : results[i] = THROW /\ i \notin skipped
      rewritten(i) == [container[i] EXCEPT !.selector = results[i]]
  IN /\ container' = [i \in DOMAIN container |->
                        IF i \notin done THEN container[i]
                        ELSE IF withRule THEN contentHook(rewritten(i))
                        ELSE rewritten(i)]
     /\ hookLog' = IF withRule THEN Ascending(done) ELSE <<>>
     /\ threw' = failed
     /\ wrappers' = IF wrap # "none" /\ ~failed THEN Append(wrappers, wrap) ELSE wrappers
     /\ tree' = IF wrap # "none" /\ ~failed THEN wrapNodes(tree, wrap) ELSE tree
     /\ trace' = pipelineEvents(Ascending(done), withRule, wrap # "none" /\ ~failed)

\* what the walk of transformAllSelectors computes for each rule: the pieces
\* of its selector and the results of the map
WalkRules(t) ==
  [i \in DOMAIN container |->
     [rule |-> i,
      selector |-> container[i].selector,
      pieces |-> splitByNotEscapedCommas(container[i].selector),
      results |-> MapTransform(t, container[i].selector)]]

\* the applyPseudoToMarker call that produced a result of the map
MarkerCall(t, piece, result) ==
  [selector |-> updateAllClasses(piece, IF IsGroupVariant(t) THEN groupCallback(StateOfVariant(t))
                                        ELSE peerCallback(StateOfVariant(t))),
   marker |-> IF IsGroupVariant(t) THEN groupMarker ELSE peerMarker,
   state |-> VariantChars(StateOfVariant(t)),
   join |-> IF IsGroupVariant(t) THEN "group" ELSE "peer",
   result |-> result]

\* the applyPseudoToMarker calls made for the rules walked: one for each
\* piece the map got a selector for
MarkerCallsOf(t, walk, walked) ==
  IF ~(IsGroupVariant(t) \/ IsPeerVariant(t)) THEN {}
  ELSE {MarkerCall(t, walk[e[1]].pieces[e[2]], walk[e[1]].results[e[2]]) :
          e \in {x \in walked \X (1..Max({Len(walk[i].pieces) : i \in walked})) :
                   /\ x[2] <= Len(UpToThrow(walk[x[1]].results))
                   /\ walk[x[1]].results[x[2]] \notin {NULL, THROW}}}

\* the log of the rules walked, in order
SplitLogOf(walk, order) ==
  [k \in DOMAIN order |-> [walk[order[k]] EXCEPT !.results = UpToThrow(@)]]

\* transformAllSelectors, given what the walk computes for each rule
AllSelectorsStep(t, withRule, wrap, walk, skipped) ==
  /\ Pipeline([i \in DOMAIN container |->
                 IF i \in skipped THEN container[i].selector
                 ELSE JoinResults(walk[i].results)],
              skipped, withRule, wrap)
  /\ splitLog' = SplitLogOf(walk, Ascending(Walked(walk, skipped)))
  /\ markerCalls' = MarkerCallsOf(t, walk, Walked(walk, skipped))
  /\ options' = [api |-> "transformAllSelectors", withRule |-> withRule, wrap |-> wrap]

transformAllSelectors(t, withRule, wrap) ==
  AllSelectorsStep(t, withRule, wrap, WalkRules(t),
                   {i \in DOMAIN container : isKeyframeRule(container[i])})

transformAllClasses(cb, withRule, wrap) ==
  /\ Pipeline([i \in DOMAIN container |->
                 classesSelector("transformAllClasses", cb, container[i].selector)],
              {}, withRule, wrap)
  /\ splitLog' = <<>>
  /\ markerCalls' = {}
  /\ options' = [api |-> "transformAllClasses", withRule |-> withRule, wrap |-> wrap]

transformLastClasses(cb, withRule, wrap) ==
  /\ Pipeline([i \in DOMAIN container |->
                 classesSelector("transformLastClasses", cb, container[i].selector)],
              {}, withRule, wrap)
  /\ splitLog' = <<>>
  /\ markerCalls' = {}
  /\ options' = [api |-> "transformLastClasses", withRule |-> withRule, wrap |-> wrap]

(***************************************************************************)
(* Actions: one variant is applied to the container.                       *)
(***************************************************************************)
CanApply == ~threw /\ Len(applied) < MaxVariants

Applied(name) ==
  /\ applied' = Append(applied, name)
  /\ base' = base
  /\ UNCHANGED valueVars

\* addVariant('before', ...) and addVariant('after', ...)
PseudoElementVariant(name) ==
  /\ CanApply
  /\ transformAllSelectors(name, TRUE, "none")
  /\ Applied(name)

\* addVariant(variantName, transformAllClasses(...))
PseudoClassVariant(variant) ==
  /\ CanApply
  /\ transformAllClasses(pseudoClassCallback(variant), FALSE, "none")
  /\ Applied(variant)

\* addVariant(groupVariantName, transformAllSelectors(...))
GroupVariant(variant) ==
  /\ CanApply
  /\ transformAllSelectors(GroupVariantOf(variant), FALSE, "none")
  /\ Applied(GroupVariantOf(variant))

\* addVariant(peerVariantName, transformAllSelectors(...))
PeerVariant(variant) ==
  /\ CanApply
  /\ transformAllSelectors(PeerVariantOf(variant), FALSE, "none")
  /\ Applied(PeerVariantOf(variant))

\* addVariant('ltr', ...)
DirectionVariant ==
  /\ CanApply
  /\ transformAllSelectors("ltr", FALSE, "none")
  /\ Applied("ltr")

\* addVariant('dark', ...) with darkMode 'class'
DarkVariant ==
  /\ CanApply
  /\ transformAllSelectors("dark", FALSE, "none")
  /\ Applied("dark")

\* addVariant('motion-safe', transformLastClasses(..., { wrap }))
ReducedMotionVariant ==
  /\ CanApply
  /\ transformLastClasses(Callback(S_motion, <<>>, <<>>), FALSE, "media")
  /\ Applied("motion-safe")

\* a variant a plugin registers through the exported transformAllClasses or
\* transformLastClasses with a withRule hook
S_x == <<"x">>

HookedClassesVariant(api) ==
  /\ CanApply
  /\ IF api = "transformAllClasses"
     THEN transformAllClasses(Callback(S_x, <<>>, <<>>), TRUE, "none")
     ELSE transformLastClasses(Callback(S_x, <<>>, <<>>), TRUE, "none")
  /\ Applied(api)

Next ==
  \/ \E name \in {"before", "after"} : PseudoElementVariant(name)
  \/ \E variant \in pseudoVariants : PseudoClassVariant(variant)
  \/ \E variant \in pseudoVariants : GroupVariant(variant)
  \/ \E variant \in pseudoVariants : PeerVariant(variant)
  \/ DirectionVariant
  \/ DarkVariant
  \/ ReducedMotionVariant
  \/ \E api \in {"transformAllClasses", "transformLastClasses"} : HookedClassesVariant(api)

Spec == Init /\ [][Next]_vars

(***************************************************************************)
(* The pipelines with both options: a plugin registers a variant through   *)
(* an exported pipeline with a withRule hook and a wrap, and the container *)
(* it is applied to may have no rule at all.                               *)
(***************************************************************************)
WrappedVariant(api) ==
  /\ CanApply
  /\ IF api = "transformAllSelectors"
     THEN transformAllSelectors("ltr", TRUE, "supports")
     ELSE IF api = "transformAllClasses"
     THEN transformAllClasses(Callback(S_x, <<>>, <<>>), TRUE, "supports")
     ELSE transformLastClasses(Callback(S_x, <<>>, <<>>), TRUE, "supports")
  /\ Applied("wrapped-" \o api)

PipelineInit == \E rules \in Bases \cup {<<>>} : Generated(rules)

PipelineNext ==
  \/ \E api \in {"transformAllSelectors", "transformAllClasses", "transformLastClasses"} :
       WrappedVariant(api)
  \/ \E name \in {"before", "after"} : PseudoElementVariant(name)
  \/ \E variant \in pseudoVariants : PseudoClassVariant(variant)
  \/ ReducedMotionVariant

PipelineSpec == PipelineInit /\ [][PipelineNext]_vars

(***************************************************************************)
(* A utility resolves a modifier with coerceValue and, if it is a color    *)
(* utility, builds its declarations from the value.                        *)
(***************************************************************************)
selectorVars ==
  <<container, wrappers, threw, base, applied, splitLog, markerCalls, hookLog,
    tree, options, trace>>

\* a utility is called with a modifier: any of the modifiers, kind lists,
\* theme tables and configurations
ValueInit ==
  /\ GeneratedRules(<<>>)
  /\ phase = "called"
  /\ request \in [types : KindLists, modifier : Modifiers, values : Themes,
                  tailwindConfig : Configs]
  /\ resolved = <<>>
  /\ colored = UNDEFINED
  /\ emitted = [utility |-> "", opacityPluginActive |-> FALSE]
  /\ declarations = <<>>

\* the utility resolves the modifier
Resolve ==
  /\ phase = "called"
  /\ resolved' = coerceValue(request.types, request.modifier, request.values,
                             request.tailwindConfig)
  /\ colored' = asColor(request.modifier, request.values, request.tailwindConfig)
  /\ phase' = "resolved"
  /\ UNCHANGED <<request, emitted, declarations, selectorVars>>

\* a color utility builds its declarations from the resolved value
Emit(utility, opacityPluginActive) ==
  /\ phase = "resolved"
  /\ request.types = TypesOf(utility)
  /\ Len(resolved) = 2
  /\ declarations' = colorUtility(utility, resolved[1], opacityPluginActive)
  /\ emitted' = [utility |-> utility, opacityPluginActive |-> opacityPluginActive]
  /\ phase' = "emitted"
  /\ UNCHANGED <<request, resolved, colored, selectorVars>>

ValueNext ==
  \/ Resolve
  \/ \E utility \in ColorUtilities, opacityPluginActive \in BOOLEAN :
       Emit(utility, opacityPluginActive)

ValueSpec == ValueInit /\ [][ValueNext]_vars

(***************************************************************************)
(* applyPseudoToMarker on selectors in which the marker already carries    *)
(* states: at the start of the selector or behind an ancestor, followed by *)
(* more of the selector or not.                                            *)
(***************************************************************************)
\* what may stand in front of the marker
MarkerPrefixes ==
  {<<>>, darkSelector \o <<" ">>,
   <<"[", "d", "i", "r", "=", "\"", "l", "t", "r", "\"", "]", " ">>}

\* the states the marker carries
MarkerStates ==
  {<<S_hover>>, <<S_focus>>, <<S_hover, S_focus>>, <<S_focus, S_hover>>}

\* what may follow the marker
MarkerSuffixes == {<<>>, <<" ">> \o S_foo, <<" ", "~", " ">> \o S_foo}

\* the selectors in which the marker carries states
MarkedSelectors(marker) ==
  {prefix \o JoinWith(<<marker>> \o states, <<":">>) \o suffix :
     prefix \in MarkerPrefixes, states \in MarkerStates, suffix \in MarkerSuffixes}

\* a relational variant calls applyPseudoToMarker(selector, marker, state, join)
ApplyToMarker(selector, marker, state, join) ==
  /\ markerCalls' = {[selector |-> selector, marker |-> marker, state |-> state,
                      join |-> join,
                      result |-> applyPseudoToMarker(selector, marker, state, join)]}
  /\ UNCHANGED <<container, wrappers, threw, base, applied, splitLog, hookLog,
                 tree, options, trace, valueVars>>

MarkerInit == \E rules \in {<<>>} : Generated(rules)

MarkerNext ==
  \E kind \in {"group", "peer"}, variant \in pseudoVariants :
    \E selector \in MarkedSelectors(IF kind = "group" THEN groupMarker ELSE peerMarker) :
      ApplyToMarker(selector, IF kind = "group" THEN groupMarker ELSE peerMarker,
                    VariantChars(variant), kind)

MarkerSpec == MarkerInit /\ [][MarkerNext]_vars

(***************************************************************************)
(* Reading selectors back, for the properties below.                       *)
(***************************************************************************)
Range(seq) == {seq[k] : k \in DOMAIN seq}

\* the characters that end a compound selector
Terminators == {" ", ",", "~", ">", "+", ")"}

\* the text up to the end of the compound it starts in
CompoundRest(str) ==
  LET ends == {k \in DOMAIN str : str[k] \in Terminators}
  IN IF ends = {} THEN str ELSE SubSeq(str, 1, Min(ends) - 1)

\* the colon-joined list that follows a marker: ':a:b' reads <<a, b>>
StateList(text) == Tail(Split(text, ":"))

HasClass(str, name) == name \in Range(ClassValues(str))

\* the class nodes of a selector whose value is name
MarkerNodes(str, name) ==
  LET nodes == Parse(str).nodes
  IN {k \in ClassIndexes(nodes) : Unescape(nodes[k].raw) = name}

\* the state lists carried by the occurrences of marker class name
MarkerStateLists(str, name) ==
  LET nodes == Parse(str).nodes
  IN {StateList(CompoundRest(Serialize(SubSeq(nodes, k + 1, Len(nodes))))) :
        k \in MarkerNodes(str, name)}

\* a selector that is one utility class
IsUtility(str) ==
  LET ast == Parse(str)
  IN /\ ast.ok
     /\ Len(ast.nodes) = 1
     /\ ast.nodes[1].type = "class"
     /\ Unescape(ast.nodes[1].raw) \notin {S_group, S_peer}

\* the marker with states stands at the start of the selector, before a space
MarkerAtStart(str, marker) ==
  StartsWith(str, marker \o <<":">>) /\ IndexOf(str, <<" ">>) # -1

\* the states of the token a selector starts with
LeadingStates(str, marker) ==
  StateList(SubSeq(CompoundRest(str), Len(marker) + 1, Len(CompoundRest(str))))

EndsWith(str, pat) ==
  Len(str) >= Len(pat) /\ SubSeq(str, Len(str) - Len(pat) + 1, Len(str)) = pat

\* the relational variants and what they are made of
RelationalVariants == {"group", "peer"}
RelVariantOf(kind, v) == IF kind = "group" THEN GroupVariantOf(v) ELSE PeerVariantOf(v)
RelClass(kind) == IF kind = "group" THEN S_group ELSE S_peer
RelSelector(kind, v, selector) ==
  IF kind = "group" THEN groupSelector(v, selector) ELSE peerSelector(v, selector)

\* the rules of the container that started as one utility class
UtilityRules == {i \in DOMAIN base : IsUtility(base[i].selector) /\ ~base[i].keyframe}

(***************************************************************************)
(* C1.  Order independence of marker-state merging, as claimed: applying   *)
(* the relational variant of state a and then that of state b to a utility *)
(* selector leaves the marker with the same state list as applying b and   *)
(* then a.                                                                 *)
(***************************************************************************)
C1_SameStateList ==
  \A kind \in RelationalVariants : \A a, b \in pseudoVariants : \A i \in UtilityRules :
    applied = <<RelVariantOf(kind, a), RelVariantOf(kind, b)>> =>
      MarkerStateLists(container[i].selector, RelClass(kind)) =
        MarkerStateLists(RelSelector(kind, a, RelSelector(kind, b, base[i].selector)),
                         RelClass(kind))

\* C1 as amended: the two orders of application leave one marker token each,
\* with the same set of states and as many states; the list of the one order
\* is the list of the other order reversed.
C1_SameStateSet ==
  \A kind \in RelationalVariants : \A a, b \in pseudoVariants : \A i \in UtilityRules :
    applied = <<RelVariantOf(kind, a), RelVariantOf(kind, b)>> =>
      LET here == MarkerStateLists(container[i].selector, RelClass(kind))
          there == MarkerStateLists(
                     RelSelector(kind, a, RelSelector(kind, b, base[i].selector)),
                     RelClass(kind))
      IN /\ Cardinality(here) = 1 /\ Cardinality(there) = 1
         /\ \A s \in here : \A t \in there :
              /\ Range(s) = Range(t)
              /\ Len(s) = Len(t)
              /\ s = [k \in DOMAIN t |-> t[Len(t) + 1 - k]]
              /\ s = <<VariantChars(b), VariantChars(a)>>

C1_Witness ==
  /\ applied = <<"group-hover", "group-focus">>
  /\ base = <<Rule(S_foo, FALSE, 0)>>
  /\ MarkerStateLists(container[1].selector, S_group) = {<<S_focus, S_hover>>}

(***************************************************************************)
(* C2.  As claimed: applyPseudoToMarker on a selector that does not        *)
(* contain the marker class returns the selector unchanged and never       *)
(* prepends a marker token.                                                *)
(***************************************************************************)
C2_NoChangeWithoutMarker ==
  \A c \in markerCalls :
    ~HasClass(c.selector, Tail(c.marker)) =>
      c.result = c.selector /\ ~StartsWith(c.result, c.marker)

\* C2 as amended: on a selector that does not contain the marker class,
\* applyPseudoToMarker returns the marker token with just the new state,
\* newly prepended, followed by the join text and the unchanged selector.
C2_MarkerPrepended ==
  \A c \in markerCalls :
    ~HasClass(c.selector, Tail(c.marker)) =>
      LET token == c.marker \o <<":">> \o c.state
      IN /\ StartsWith(c.result, token)
         /\ EndsWith(c.result, c.selector)
         /\ SubSeq(c.result, Len(token) + 1, Len(c.result) - Len(c.selector)) =
              (IF c.join = "group" THEN <<" ">> ELSE <<" ", "~", " ">>)

C2_Witness ==
  \E c \in markerCalls :
    /\ ~HasClass(c.selector, Tail(c.marker))
    /\ c.selector = <<".">> \o cssesc(S_group \o <<"-">> \o S_hover \o separator \o Tail(S_foo))
    /\ c.result = groupMarker \o <<":">> \o S_hover \o <<" ">> \o c.selector

(***************************************************************************)
(* C3.  Marker classes are never renamed: a marker class that a variant    *)
(* put into the selector of a rule is still a class of that selector after *)
(* any later variant application.                                          *)
(***************************************************************************)
C3_MarkerNeverRenamed ==
  [][\A i \in DOMAIN container : \A kind \in RelationalVariants :
       (/\ ~HasClass(base[i].selector, RelClass(kind))
        /\ HasClass(container[i].selector, RelClass(kind)))
         => HasClass(container'[i].selector, RelClass(kind))]_vars

(***************************************************************************)
(* C4.  Stacking group variants with distinct states on a rule that is one *)
(* utility class leaves exactly one group marker class, carrying exactly   *)
(* the applied states, each once.                                          *)
(***************************************************************************)
GroupStateOf(name) == CHOOSE v \in pseudoVariants : name = GroupVariantOf(v)

DistinctGroupVariants(names) ==
  /\ names # <<>>
  /\ \A k \in DOMAIN names : \E v \in pseudoVariants : names[k] = GroupVariantOf(v)
  /\ \A j, k \in DOMAIN names : j # k => names[j] # names[k]

C4_OneMarkerToken ==
  \A i \in UtilityRules :
    DistinctGroupVariants(applied) =>
      /\ Cardinality(MarkerNodes(container[i].selector, S_group)) = 1
      /\ \A s \in MarkerStateLists(container[i].selector, S_group) :
           /\ Len(s) = Len(applied)
           /\ Range(s) = {VariantChars(GroupStateOf(applied[k])) : k \in DOMAIN applied}

C4_Witness ==
  /\ applied = <<"group-focus", "group-hover">>
  /\ UtilityRules # {}
  /\ \A i \in UtilityRules :
       MarkerStateLists(container[i].selector, S_group) = {<<S_hover, S_focus>>}

(***************************************************************************)
(* C5.  As claimed: when the marker already carries states, the new state  *)
(* comes after all of them in the combined marker token.                   *)
(***************************************************************************)
\* the states of the first marker that carries states
ExistingStates(str, marker) ==
  LET markerIdx == IndexOf(str, marker \o <<":">>)
  IN StateList(CompoundRest(SubSeq(str, markerIdx + Len(marker) + 1, Len(str))))

CarriesStates(str, marker) == IndexOf(str, marker \o <<":">>) # -1

C5_NewStateLast ==
  \A c \in markerCalls :
    CarriesStates(c.selector, c.marker) =>
      LeadingStates(c.result, c.marker) =
        ExistingStates(c.selector, c.marker) \o <<c.state>>

\* C5 as amended: when the marker with its states stands at the start of the
\* selector and a space follows it, the new state comes first in the combined
\* marker token and the existing states follow it in their order.
C5_NewStateFirst ==
  \A c \in markerCalls :
    MarkerAtStart(c.selector, c.marker) =>
      LeadingStates(c.result, c.marker) =
        <<c.state>> \o ExistingStates(c.selector, c.marker)

C5_Witness ==
  \E c \in markerCalls :
    /\ MarkerAtStart(c.selector, c.marker)
    /\ ExistingStates(c.selector, c.marker) = <<S_hover>>
    /\ c.state = S_focus
    /\ LeadingStates(c.result, c.marker) = <<S_focus, S_hover>>

(***************************************************************************)
(* C6.  As claimed: applying a state the marker already lists leaves the   *)
(* state list of the marker token as it was.                               *)
(***************************************************************************)
Count(seq, x) == Cardinality({k \in DOMAIN seq : seq[k] = x})

C6_DuplicateStateIdempotent ==
  \A c \in markerCalls :
    (/\ CarriesStates(c.selector, c.marker)
     /\ c.state \in Range(ExistingStates(c.selector, c.marker)))
      => LeadingStates(c.result, c.marker) = ExistingStates(c.selector, c.marker)

\* C6 as amended: when the marker with its states stands at the start of the
\* selector and a space follows it, applying a state it already lists puts
\* that state into the list once more; the set of states stays the same.
C6_DuplicateStateListedAgain ==
  \A c \in markerCalls :
    (/\ MarkerAtStart(c.selector, c.marker)
     /\ c.state \in Range(ExistingStates(c.selector, c.marker)))
      => LET before == ExistingStates(c.selector, c.marker)
             after == LeadingStates(c.result, c.marker)
         IN /\ Range(after) = Range(before)
            /\ Len(after) = Len(before) + 1
            /\ Count(after, c.state) = Count(before, c.state) + 1

C6_Witness ==
  \E c \in markerCalls :
    /\ MarkerAtStart(c.selector, c.marker)
    /\ c.state = S_hover
    /\ ExistingStates(c.selector, c.marker) = <<S_hover>>
    /\ LeadingStates(c.result, c.marker) = <<S_hover, S_hover>>

(***************************************************************************)
(* C7.  Pseudo-element ordering: in no compound of a rewritten selector is *)
(* a pseudo-element followed by a pseudo-class.                            *)
(***************************************************************************)
\* the indexes where a pseudo-element starts
PseudoElementStarts(str) ==
  {k \in 1..(Len(str) - 1) :
     /\ str[k] = ":" /\ str[k + 1] = ":"
     /\ (k = 1 \/ str[k - 1] \notin {"\\", ":"})}

PseudoClassAt(str, k) ==
  /\ k <= Len(str) /\ str[k] = ":"
  /\ (k = Len(str) \/ str[k + 1] # ":")

C7_PseudoElementLast ==
  \A i \in DOMAIN container :
    \A k \in PseudoElementStarts(container[i].selector) :
      ~PseudoClassAt(container[i].selector, ClassEnd(container[i].selector, k + 2))

(***************************************************************************)
(* C8.  Suppressed variants produce no CSS: no rule of the container is    *)
(* left with an empty selector or with an empty alternative in its         *)
(* selector list.                                                          *)
(***************************************************************************)
C8_NoEmptySelector ==
  \A i \in DOMAIN container :
    \A k \in DOMAIN splitByNotEscapedCommas(container[i].selector) :
      Trim(splitByNotEscapedCommas(container[i].selector)[k]) # <<>>

(***************************************************************************)
(* C9.  Keyframe rules are never rewritten: every keyframe rule keeps its  *)
(* selector, and no pipeline passes it to the withRule hook.               *)
(***************************************************************************)
C9_KeyframeRulesUntouched ==
  \A i \in DOMAIN container :
    isKeyframeRule(container[i]) =>
      /\ container[i].selector = base[i].selector
      /\ i \notin Range(hookLog)

(***************************************************************************)
(* C10.  transformAllSelectors splits a selector only at commas that are   *)
(* unescaped and at the top level, and transforms as many pieces as the    *)
(* selector has alternatives.                                              *)
(***************************************************************************)
\* the alternatives of a selector list as the selector parser separates them
TopLevelPieces(str) ==
  LET nodes == Parse(str).nodes
      segs == {nodes[k].seg : k \in DOMAIN nodes} \cup {0}
      inSeg(g) == {k \in DOMAIN nodes : nodes[k].seg = g /\ nodes[k].type # "comma"}
  IN [g \in 1..Cardinality(segs) |->
        Concat([j \in 1..Cardinality(inSeg(g - 1)) |->
                  NodeText(nodes[Ascending(inSeg(g - 1))[j]])])]

C10_SplitsAtTopLevelCommas ==
  \A k \in DOMAIN splitLog :
    /\ splitLog[k].pieces = TopLevelPieces(splitLog[k].selector)
    /\ Len(splitLog[k].pieces) = Len(TopLevelPieces(splitLog[k].selector))

(***************************************************************************)
(* C16: updateAllClasses is class-count-preserving.  Whenever a variant    *)
(* registered through transformAllClasses is applied (the selector of each *)
(* rule becomes updateAllClasses of it, with a callback that calls         *)
(* withPseudo or one that does not), every rule has as many class nodes    *)
(* afterwards as it had before.                                            *)
(***************************************************************************)
\* the class nodes of a selector, in order of occurrence
ClassNodes(str) == SelectSeq(Parse(str).nodes, IsClassNode)

C16_ClassCountPreserved ==
  [][options'.api = "transformAllClasses" =>
       \A i \in DOMAIN container :
         Len(ClassNodes(container'[i].selector)) = Len(ClassNodes(container[i].selector))]_vars

\* hover was applied last and inserted its pseudo-class after each of the
\* several classes of a rule
C16_Witness ==
  /\ options.api = "transformAllClasses"
  /\ ~threw
  /\ applied # <<>> /\ applied[Len(applied)] = "hover"
  /\ \E i \in DOMAIN container :
       /\ Len(ClassNodes(container[i].selector)) >= 2
       /\ \A k \in DOMAIN ClassNodes(container[i].selector) :
            StartsWith(Unescape(ClassNodes(container[i].selector)[k].raw), S_hover \o separator)

(***************************************************************************)
(* C17: updateLastClasses changes at most one class node per               *)
(* comma-separated selector.  Whenever a variant registered through        *)
(* transformLastClasses is applied, a class node whose name changed is the *)
(* last class among the direct children of its selector, every other class *)
(* node keeps its name, and a comma-separated selector with no class among *)
(* its direct children keeps its text.                                     *)
(***************************************************************************)
\* the class nodes among the direct children of alternative g of a selector
DirectClasses(str, g) ==
  {k \in DOMAIN ClassNodes(str) :
     ClassNodes(str)[k].depth = 0 /\ ClassNodes(str)[k].seg = g}

LastClassOnly(before, after) ==
  /\ Len(ClassNodes(after)) = Len(ClassNodes(before))
  /\ \A k \in DOMAIN ClassNodes(before) :
       ClassNodes(after)[k].raw # ClassNodes(before)[k].raw =>
         /\ ClassNodes(before)[k].depth = 0
         /\ \A j \in DirectClasses(before, ClassNodes(before)[k].seg) : j <= k
  /\ Len(TopLevelPieces(after)) = Len(TopLevelPieces(before))
  /\ \A g \in DOMAIN TopLevelPieces(before) :
       DirectClasses(before, g - 1) = {} =>
         TopLevelPieces(after)[g] = TopLevelPieces(before)[g]

C17_LastClassOnly ==
  [][options'.api = "transformLastClasses" =>
       \A i \in DOMAIN container :
         LastClassOnly(container[i].selector, container'[i].selector)]_vars

\* motion-safe was applied to a rule with several classes and renamed one
C17_Witness ==
  /\ options.api = "transformLastClasses"
  /\ ~threw
  /\ Len(applied) = 1
  /\ \E i \in DOMAIN container :
       /\ Len(ClassNodes(base[i].selector)) >= 2
       /\ Cardinality({k \in DOMAIN ClassNodes(base[i].selector) :
            ClassNodes(container[i].selector)[k].raw # ClassNodes(base[i].selector)[k].raw}) = 1

(***************************************************************************)
(* C18: wrapping.  Whenever a variant with a wrap is applied and its walk  *)
(* completes, the container has exactly one child afterwards, the at-rule  *)
(* wrap() returned, and the children of that at-rule are the former direct *)
(* children of the container in their order - also when there were none.   *)
(***************************************************************************)
C18_WrapperHoldsFormerChildren ==
  [][(options'.wrap # "none" /\ ~threw') =>
       /\ Len(tree') = 1
       /\ tree'[1].type = "atrule"
       /\ tree'[1].name = options'.wrap
       /\ tree'[1].nodes = tree]_vars

\* a container of several rules was wrapped, and wrapped again
C18_Witness ==
  /\ Len(base) >= 2
  /\ Len(applied) = 2
  /\ ~threw
  /\ Len(tree) = 1
  /\ Len(tree[1].nodes) = 1
  /\ tree[1].nodes[1].type = "atrule"
  /\ tree[1].nodes[1].nodes = [i \in DOMAIN base |-> RuleNode(i)]

(***************************************************************************)
(* C19: wrap ordering.  In every application, wrap() is called and the     *)
(* nodes are moved only after every rule the walk rewrites has had its     *)
(* selector set and, if a hook is supplied, its withRule hook run: nothing *)
(* is rewritten or hooked after the move.  (transformAllSelectors never    *)
(* rewrites a keyframe rule, so it has no rewrite to wait for there.)      *)
(***************************************************************************)
\* the rules a pipeline returns early on
SkippedBy(api) ==
  {i \in DOMAIN container : api = "transformAllSelectors" /\ isKeyframeRule(container[i])}

C19_WrapAfterRewrites ==
  \A k \in DOMAIN trace :
    trace[k].op \in {"wrap", "append"} =>
      /\ \A j \in DOMAIN trace : trace[j].op \in {"selector", "withRule"} => j < k
      /\ \A i \in DOMAIN container \ SkippedBy(options.api) :
           /\ \E j \in 1..(k - 1) : trace[j] = Event("selector", i)
           /\ options.withRule => \E j \in 1..(k - 1) : trace[j] = Event("withRule", i)

\* a pipeline with a hook and a wrap ran on a container of several rules
C19_Witness ==
  /\ options.wrap # "none" /\ options.withRule
  /\ Len(container) >= 2
  /\ \E k \in DOMAIN trace : trace[k].op = "wrap"
  /\ \A i \in DOMAIN container \ SkippedBy(options.api) :
       \E j \in DOMAIN trace : trace[j] = Event("withRule", i)

(***************************************************************************)
(* C20: the withRule hook, when supplied, is invoked exactly once for each *)
(* rule the application rewrites - also a rule inside the wrapper of an    *)
(* earlier variant - after the selector of that rule was set, and for no   *)
(* other rule.                                                             *)
(***************************************************************************)
EventsOf(op, i) == {k \in DOMAIN trace : trace[k] = Event(op, i)}

C20_HookOncePerRewrittenRule ==
  options.withRule =>
    \A i \in DOMAIN container :
      /\ Cardinality(EventsOf("selector", i)) <= 1
      /\ Cardinality(EventsOf("withRule", i)) = Cardinality(EventsOf("selector", i))
      /\ \A h \in EventsOf("withRule", i) : \E r \in EventsOf("selector", i) : r < h
      /\ (EventsOf("withRule", i) # {}) <=> (i \in Range(hookLog))
      /\ i \in Range(hookLog) => container[i].content >= 1

\* a hooked variant rewrote the rules an earlier variant had wrapped
C20_Witness ==
  /\ options.withRule
  /\ Len(applied) = 2
  /\ Len(wrappers) >= 1
  /\ Len(container) >= 2
  /\ \A i \in DOMAIN container : Cardinality(EventsOf("withRule", i)) = 1


(***************************************************************************)
(* Value resolution claims, checked under ValueSpec.                       *)
(***************************************************************************)
\* coerceValue has returned for the request
Returned == phase \in {"resolved", "emitted"}

\* the modifier of the request is a key of its theme table
ThemeHit == request.modifier \in DOMAIN request.values

\* the text between the brackets of the modifier has a colon
TypedBrackets ==
  /\ isArbitraryValue(request.modifier)
  /\ IndexOf(Slice(request.modifier, 1, -1), <<":">>) # -1

\* C11 as stated: whenever the modifier is a key of the theme table and the kinds
\* list is not empty, coerceValue returns the theme value verbatim paired with
\* the kind 'lookup', whatever the key looks like.
C11_ThemeHitIsLookupKind ==
  (Returned /\ ThemeHit /\ request.types # <<>>)
    => resolved = <<request.values[request.modifier], K_lookup>>

\* C11 amended: when the modifier is a key of the theme table with a non-empty
\* value and is not a bracketed text with a colon, coerceValue returns the theme
\* value verbatim paired with the first kind of the caller's list; a theme key
\* of the form '[k:v]' whose k is not a supported kind is never looked up and
\* the result is empty.
C11_ThemeHitIsFirstKind ==
  (Returned /\ ThemeHit /\ request.types # <<>>)
    => /\ (request.values[request.modifier] # <<>> /\ ~TypedBrackets)
            => resolved = <<request.values[request.modifier], request.types[1]>>
       /\ (TypedBrackets
             /\ ~IsSupported(splitAtFirst(Slice(request.modifier, 1, -1), <<":">>)[1]))
            => resolved = <<>>

\* C11 witness: the theme key '[abc]' was resolved for a utility whose first kind
\* is color, and its theme value came back unvalidated with that kind.
C11_Witness ==
  /\ phase = "resolved"
  /\ request.modifier = M_abc
  /\ ThemeHit
  /\ resolved = <<V_bar, K_color>>

\* the validator of a kind accepts the value: 'any' and 'lookup' validate
\* nothing, a color may carry a composed alpha channel
Accepts(kind, value) ==
  \/ kind \in {K_any, K_lookup}
  \/ \E literal \in ValidLiterals(kind) : normalize(literal) = value
  \/ /\ kind = K_color
     /\ \E color \in ValidLiterals(K_color),
           alpha \in ValidLiterals(K_number) \cup ValidLiterals(K_percentage) :
          value = Composed(color, alpha)

\* the modifier is a bracketed text without a kind prefix that the theme
\* table does not have
UntypedBrackets ==
  /\ isArbitraryValue(request.modifier)
  /\ ~TypedBrackets
  /\ ~ThemeHit

\* C12 as stated: coerceValue returns either the empty result or a pair
\* (value, kind) whose value is defined and accepted by the validator of the
\* returned kind; an explicitly typed '[kind:raw]' is returned only if raw is
\* valid for that kind.
C12_ResultIsValidated ==
  Returned =>
    \/ resolved = <<>>
    \/ /\ Len(resolved) = 2
       /\ resolved[1] # UNDEFINED
       /\ Accepts(resolved[2], resolved[1])

\* C12 amended: coerceValue returns either the empty result or a pair
\* (value, kind) whose value is defined and whose kind is a supported kind; when
\* the modifier is an untyped bracketed text that is not a theme key, the kind is
\* one of the caller's, its validator accepted the text and the value is the
\* normalized text.
C12_ResultIsPairOrEmpty ==
  Returned =>
    \/ resolved = <<>>
    \/ /\ Len(resolved) = 2
       /\ resolved[1] # UNDEFINED
       /\ IsSupported(resolved[2])
       /\ UntypedBrackets =>
            /\ resolved[2] \in {request.types[k] : k \in DOMAIN request.types}
            /\ Accepts(resolved[2], resolved[1])
            /\ resolved[1] = normalize(Slice(request.modifier, 1, -1))

\* C12 witness: the untyped '[1px_2px]' was resolved for a utility accepting
\* color before length: color rejected it, length validated and normalized it.
C12_Witness ==
  /\ phase = "resolved"
  /\ request.modifier = M_lengths
  /\ request.types = <<K_color, K_length>>
  /\ resolved = <<normalize(V_lengths), K_length>>

\* the modifier is 'base/alpha' with base a theme key, is not itself a theme
\* key, and alpha is neither a key of theme.opacity nor a bracketed number or
\* percentage
MissingAlphaSource ==
  /\ Len(splitAlpha(request.modifier)) = 2
  /\ splitAlpha(request.modifier)[1] \in DOMAIN request.values
  /\ ~ThemeHit
  /\ OpacityOf(request.tailwindConfig, splitAlpha(request.modifier)[2]) = UNDEFINED
  /\ ~ /\ isArbitraryValue(splitAlpha(request.modifier)[2])
       /\ IsAlpha(Slice(splitAlpha(request.modifier)[2], 1, -1))

EscapedAt(text, k) == k > 1 /\ text[k - 1] = "\\"

\* the text before the first unescaped colon, undefined when there is none
KindPrefix(text) ==
  LET colons == {k \in DOMAIN text : text[k] = ":" /\ ~EscapedAt(text, k)}
  IN IF colons = {} THEN UNDEFINED ELSE SubSeq(text, 1, Min(colons) - 1)

\* the modifier is bracketed and names a kind that is not supported
UnsupportedPrefix ==
  /\ isArbitraryValue(request.modifier)
  /\ KindPrefix(Slice(request.modifier, 1, -1)) # UNDEFINED
  /\ ~IsSupported(KindPrefix(Slice(request.modifier, 1, -1)))

\* C14: for a bracketed modifier whose text before the first unescaped colon is
\* present but is not a supported kind name, coerceValue returns the empty result
\* for every kinds list: no resolver of the caller's kinds is tried.
C14_UnsupportedPrefixIsAbsent ==
  (Returned /\ UnsupportedPrefix) => resolved = <<>>

\* C14 witness: '[foo:bar]' was resolved for a utility accepting any value
\* against a theme that even has the key '[foo:bar]', and nothing came back.
C14_Witness ==
  /\ phase = "resolved"
  /\ request.modifier = M_fooBar
  /\ request.types = <<K_any>>
  /\ ThemeHit
  /\ UnsupportedPrefix
  /\ resolved = <<>>

\* the custom properties of the companion opacity plugins
OpacityVariables == {VariableOf(utility) : utility \in ColorUtilities}

\* C15 as stated: when the companion opacity plugin of a color utility is
\* disabled, the utility emits exactly one declaration, for its color property,
\* and no opacity custom property is declared or referred to; this for the
\* background, text, border, divide, placeholder and ring color utilities.
C15_DisabledOpacityOneDeclaration ==
  (phase = "emitted" /\ ~emitted.opacityPluginActive)
    => /\ Len(declarations) = 1
       /\ declarations[1].prop = PropertyOf(emitted.utility)
       /\ \A k \in DOMAIN declarations :
            /\ declarations[k].prop \notin OpacityVariables
            /\ declarations[k].alpha \notin {Var(variable) : variable \in OpacityVariables}

\* the text between the brackets of the modifier
Raw == Slice(request.modifier, 1, -1)

\* the validator of the kind accepts raw: 'any' has none and accepts every
\* text, 'lookup' accepts nothing that is not a theme key
AcceptsRaw(kind) == kind = K_any \/ Raw \in ValidLiterals(kind)

\* the positions in the caller's list of the kinds that accept raw
Accepting == {k \in DOMAIN request.types : AcceptsRaw(request.types[k])}

\* C21 as stated: for a bracketed modifier '[raw]' that is not a theme key and
\* has no colon, coerceValue returns the normalized raw paired with the first
\* kind of the caller's list whose validator accepts raw, and the empty result
\* if no kind accepts it.
C21_FirstAcceptingKind ==
  (Returned /\ UntypedBrackets)
    => IF Accepting = {} THEN resolved = <<>>
       ELSE resolved = <<normalize(Raw), request.types[Min(Accepting)]>>

\* C21 amended: the same, except that a raw text whose normalized value is
\* empty ('[]', or brackets around blanks) resolves to the empty result even
\* when a kind of the list accepts it.
C21_FirstAcceptingKindNotEmpty ==
  (Returned /\ UntypedBrackets)
    => IF Accepting = {} \/ normalize(Raw) = <<>> THEN resolved = <<>>
       ELSE resolved = <<normalize(Raw), request.types[Min(Accepting)]>>

\* C21 witness: '[#1da1f2]' was resolved for a utility accepting color before
\* any value, both of which accept it, and came back as a color.
C21_Witness ==
  /\ phase = "resolved"
  /\ request.modifier = M_hex
  /\ request.types = <<K_color, K_any>>
  /\ UntypedBrackets
  /\ Accepting = {1, 2}
  /\ resolved = <<V_hex, K_color>>

\* the modifier is '[k:v]' with k a supported kind and v not empty
SupportedPrefix ==
  /\ TypedBrackets
  /\ IsSupported(splitAtFirst(Raw, <<":">>)[1])
  /\ splitAtFirst(Raw, <<":">>)[2] # <<>>

\* C22 as stated: for a modifier '[k:v]' with k a supported kind name and v not
\* empty, coerceValue returns (normalize(v), k) for every kinds list, whether
\* or not k is in the list.
C22_ExplicitKindNormalized ==
  (Returned /\ SupportedPrefix)
    => resolved = <<normalize(splitAtFirst(Raw, <<":">>)[2]),
                    splitAtFirst(Raw, <<":">>)[1]>>

\* the modifier is 'base/alpha' with base a theme key and alpha a key of
\* theme.opacity, and is not itself a theme key
ScaleAlpha ==
  /\ Len(splitAlpha(request.modifier)) = 2
  /\ splitAlpha(request.modifier)[1] \in DOMAIN request.values
  /\ ~ThemeHit
  /\ OpacityOf(request.tailwindConfig, splitAlpha(request.modifier)[2]) # UNDEFINED

\* color is among the kinds of the caller
WantsColor == \E k \in DOMAIN request.types : request.types[k] = K_color

\* the theme color of the base composed with the opacity-scale value
ScaleComposed ==
  Composed(request.values[splitAlpha(request.modifier)[1]],
           OpacityOf(request.tailwindConfig, splitAlpha(request.modifier)[2]))

C24_NeverThrows ==
  Returned =>
    /\ colored # THROW
    /\ resolved # THROW
    /\ resolved = <<>> \/ (Len(resolved) = 2 /\ resolved[1] # THROW)

\* C24 witness: 'red-500/', which splitAlpha does not split, was resolved as a
\* color against a theme that has red-500 and a configuration without
\* theme.opacity, and nothing came back.
C24_Witness ==
  /\ phase = "resolved"
  /\ request.modifier = M_trailing
  /\ Len(splitAlpha(request.modifier)) = 1
  /\ M_red500 \in DOMAIN request.values
  /\ ~request.tailwindConfig.hasOpacity
  /\ WantsColor
  /\ colored = UNDEFINED
  /\ resolved = <<>>

\* the modifier is not a theme key, has no brackets around it and no alpha
\* split whose left part is a theme key
Unresolvable ==
  /\ ~ThemeHit
  /\ ~isArbitraryValue(request.modifier)
  /\ ~ /\ Len(splitAlpha(request.modifier)) = 2
       /\ splitAlpha(request.modifier)[1] \in DOMAIN request.values

\* C25: for a modifier that is not a theme key, is not wrapped in brackets and
\* has no alpha split whose left part is a theme key, coerceValue returns the
\* empty result for every kinds list.
C25_UnresolvableIsAbsent ==
  (Returned /\ Unresolvable) => resolved = <<>>

\* C25 witness: 'not-a-real-key' was resolved for a utility accepting color and
\* length against a theme with other keys, and nothing came back.
C25_Witness ==
  /\ phase = "resolved"
  /\ request.modifier = M_unknown
  /\ request.types = <<K_color, K_length>>
  /\ request.values # <<>>
  /\ Unresolvable
  /\ resolved = <<>>

\* C30: a modifier with a '/' that is itself a key of the theme table is
\* returned by asColor as its theme value, unchanged and unsplit, even when the
\* part before the last '/' is a theme key too.
C30_WholeModifierFirst ==
  (Returned /\ ThemeHit /\ IndexOf(request.modifier, <<"/">>) # -1)
    => colored = request.values[request.modifier]

\* C30 witness: 'red-500/50' was resolved against a theme that has both
\* 'red-500/50' and 'red-500', with an opacity scale that has 50, and the
\* value of the whole key came back.
C30_Witness ==
  /\ phase = "resolved"
  /\ request.modifier = M_alpha50
  /\ ThemeHit
  /\ splitAlpha(request.modifier)[1] \in DOMAIN request.values
  /\ OpacityOf(request.tailwindConfig, splitAlpha(request.modifier)[2]) # UNDEFINED
  /\ colored = V_red

(***************************************************************************)
(* Marker-state merging claims, checked under MarkerSpec.                  *)
(***************************************************************************)
\* the marker-with-states token of a selector: from the marker to the next
\* space, or to the end of the selector
OldMarkerToken(str, marker) ==
  LET markerIdx == IndexOf(str, marker \o <<":">>)
      spaceIdx == IndexOfFrom(str, <<" ">>, markerIdx)
  IN Slice(str, markerIdx, IF spaceIdx = -1 THEN Len(str) ELSE spaceIdx)

\* the states of that token
OldStates(str, marker) ==
  Split(Slice(OldMarkerToken(str, marker), Len(marker) + 1,
              Len(OldMarkerToken(str, marker))), ":")

\* the selector without that token
WithoutMarkerToken(str, marker) == Replace(str, OldMarkerToken(str, marker), <<>>)

\* C26 as stated: wherever the marker-with-states token stands in the selector,
\* at offset 0 or later, followed by a space or last, applyPseudoToMarker hands
\* join a token with every existing state as it was plus the new state, and the
\* selector with exactly the old token removed.
C26_StatesParsedAnywhere ==
  \A c \in markerCalls :
    CarriesStates(c.selector, c.marker) =>
      c.result \in
        {CallJoin(c.join, JoinWith(<<c.marker>> \o states, <<":">>),
                  WithoutMarkerToken(c.selector, c.marker)) :
           states \in {<<c.state>> \o OldStates(c.selector, c.marker),
                       OldStates(c.selector, c.marker) \o <<c.state>>}}

(***************************************************************************)
(* Relational variant claims, checked under Spec.                          *)
(***************************************************************************)
\* the variant applied last
LastApplied == applied[Len(applied)]

\* a relational variant was applied last
RelationalApplied ==
  applied # <<>> /\ (IsGroupVariant(LastApplied) \/ IsPeerVariant(LastApplied))

\* the marker class of the variant applied last, without its dot
LastMarkerName == IF IsGroupVariant(LastApplied) THEN S_group ELSE S_peer

\* the marker token with the state of the variant applied last
LastMarkerToken ==
  <<".">> \o LastMarkerName \o <<":">> \o VariantChars(StateOfVariant(LastApplied))

\* the piece has a class other than the marker class
HasOtherClass(piece, markerName) ==
  \E k \in DOMAIN ClassValues(piece) : ClassValues(piece)[k] # markerName

\* C28: a group-* or peer-* transform returns null exactly when the piece has
\* no class other than the marker class; for a piece with another class it
\* returns a selector that starts with the marker token carrying the state of
\* the variant.  Stated for the pieces the selector parser reads.
C28_NullIffOnlyMarker ==
  RelationalApplied =>
    \A k \in DOMAIN splitLog : \A j \in DOMAIN splitLog[k].results :
      Parse(splitLog[k].pieces[j]).ok =>
        /\ splitLog[k].results[j] # THROW
        /\ (splitLog[k].results[j] = NULL)
             <=> ~HasOtherClass(splitLog[k].pieces[j], LastMarkerName)
        /\ HasOtherClass(splitLog[k].pieces[j], LastMarkerName)
             => StartsWith(splitLog[k].results[j], LastMarkerToken)

\* C28 witness: group-hover was applied to the rules .group and a, .foo: the
\* pieces .group and a were suppressed and .foo got the marker token.
C28_Witness ==
  /\ applied = <<"group-hover">>
  /\ Len(splitLog) = 2
  /\ splitLog[1].pieces = <<groupMarker>>
  /\ splitLog[1].results = <<NULL>>
  /\ splitLog[2].results[1] = NULL
  /\ HasOtherClass(splitLog[2].pieces[2], S_group)
  /\ StartsWith(splitLog[2].results[2], groupMarker \o <<":">> \o S_hover \o <<" ">>)

\* only peer-* variants were applied, at least one
OnlyPeerApplied ==
  applied # <<>> /\ \A k \in DOMAIN applied : IsPeerVariant(applied[k])

\* the positions of the general-sibling combinator in a selector
Combinators(str) == {k \in DOMAIN str : str[k] = "~"}

\* C29: after n >= 1 peer-* variants applied to a rule whose selector is a
\* single utility class, exactly one '~' separates the peer marker token from
\* the rest of the selector: the selector is the marker token, ' ~ ', and a rest
\* without a combinator.
C29_OneSiblingCombinator ==
  OnlyPeerApplied =>
    \A i \in UtilityRules :
      LET selector == container[i].selector
          tokenEnd == IndexOf(selector, <<" ">>)
      IN /\ StartsWith(selector, peerMarker \o <<":">>)
         /\ tokenEnd # -1
         /\ Combinators(selector) = {tokenEnd + 2}
         /\ SubSeq(selector, tokenEnd + 1, tokenEnd + 3) = <<" ", "~", " ">>
         /\ IsClassNode(Parse(selector).nodes[Len(Parse(selector).nodes)])

\* C29 witness: peer-hover and then peer-focus were applied to .foo, and the
\* marker with both states is followed by one combinator.
C29_Witness ==
  /\ applied = <<"peer-hover", "peer-focus">>
  /\ UtilityRules # {}
  /\ \A i \in UtilityRules :
       /\ StartsWith(container[i].selector,
                     peerMarker \o <<":">> \o S_focus \o <<":">> \o S_hover \o <<" ", "~", " ", ".">>)
       /\ Cardinality(Combinators(container[i].selector)) = 1

(***************************************************************************)
(* The content declaration of the before and after variants, checked under *)
(* Spec.                                                                   *)
(***************************************************************************)
\* the step applies the before or the after variant
PseudoElementStep ==
  /\ applied' # applied
  /\ applied'[Len(applied')] \in {"before", "after"}

\* only before and after variants were applied, at least one
OnlyPseudoElements(variants) ==
  variants # <<>> /\ \A k \in DOMAIN variants : variants[k] \in {"before", "after"}

\* C27: when the before or after variant is applied, every rule it rewrites
\* has a content declaration afterwards; a rule that had one gets no other and
\* keeps what it had; a rule that is not rewritten is left as it was; and after
\* any sequence of before/after variants a rule has at most one content
\* declaration more than it started with, and has one if the variants ran to
\* their end and it is not a step of @keyframes.
C27_ContentGuarantee ==
  [][PseudoElementStep =>
       /\ \A i \in DOMAIN container :
            IF i \in Range(hookLog')
            THEN /\ container'[i].content >= 1
                 /\ container[i].content >= 1 => container'[i].content = container[i].content
                 /\ container[i].content = 0 => container'[i].content = 1
            ELSE container'[i].content = container[i].content
       /\ OnlyPseudoElements(applied') =>
            \A i \in DOMAIN container :
              /\ container'[i].content <= base'[i].content + 1
              /\ base'[i].content >= 1 => container'[i].content = base'[i].content
              /\ (~threw' /\ ~base'[i].keyframe) => container'[i].content >= 1]_vars

\* C27 witness: before and then after were applied to a step of @keyframes and
\* to .foo, which had a content declaration: .foo was rewritten twice and still
\* has one declaration, the keyframe step has none.
C27_Witness ==
  /\ applied = <<"before", "after">>
  /\ Len(container) = 2
  /\ base[2].content = 1
  /\ hookLog = <<2>>
  /\ container[2].content = 1
  /\ container[1].keyframe /\ container[1].content = 0

====
